---- MODULE Spec2Model ----
(***************************************************************************)
(* JoystickGremlin: the vJoy virtual output device (src/vjoy/vjoy.py) with *)
(* its keep-alive timer thread and axis write path, the device matcher     *)
(* joystick_devices and the AxisButton detector (src/gremlin/util.py).     *)
(*                                                                         *)
(* Spec      : VJoy instances driven by one foreground thread, one         *)
(*             threading.Timer chain per instance, a clock.                *)
(* SpecMatch : one pass of joystick_devices over an enumerated device list *)
(*             and the sixteen vJoy slots.                                 *)
(* SpecButton: two AxisButton detectors fed the same samples.              *)
(* SpecAxis  : one Axis control, its deadzone, response curve and setter.  *)
(* SpecControls : the axis, button and hat accesses of one live device.    *)
(* SpecDeadzone : calls of the function deadzone.                          *)
(* SpecCalib    : a calibration function and the samples it is given.      *)
(* SpecConfig   : Configuration.set_calibration and get_calibration.       *)
(* SpecIds      : setup_duplicate_joysticks and the device id functions.   *)
(* SpecAxes     : the axis table of a VJoy and is_axis_valid.              *)
(***************************************************************************)
EXTENDS Integers, Sequences, FiniteSets, TLC

(***************************************************************************)
(* Bounds of the model.                                                    *)
(***************************************************************************)
MaxTime == 125
TimeStep == 60
MaxInval == 2
MaxDev == 2

(***************************************************************************)
(* Program constants.                                                      *)
(***************************************************************************)
KeepAlivePeriod == 60
RequiredVersion == 536
ResetAxisLast == 6

MaxSlot == 16

(* Two VJoy objects contend for one driver slot.                           *)
Insts == {1, 2}
Slots == {1}
None == 0

(* The driver's configuration of a slot: GetVJDAxisExist, by position in   *)
(* AxisName (1 = X ... 7 = SL0, 8 = SL1).                                  *)
DrvAxes(s) == IF s = 1 THEN {1, 7} ELSE {2}

(* Axis values are fixed-point numbers: One stands for 1.0.                *)
One == 10000

(* Values the foreground writes to an axis: 0.0 and 1.0.                   *)
WriteVals == {0, One}

VARIABLES
    now,              \* time.time()
    vJoyEnabled,      \* driver: VJoyInterface.vJoyEnabled()
    vJoyVersion,      \* driver: VJoyInterface.GetvJoyVersion()
    VJDStatus,        \* driver: slot -> "Free" | "Own" | "Busy"
    st,               \* instance -> "new" | "live" | "failed"
    req,              \* instance -> slot passed to the constructor
    vjoy_id,          \* VJoy.vjoy_id (None = 0)
    axis,             \* VJoy._axis: position -> Axis._value
    ctl_vjoy_id,      \* Axis.vjoy_id, copied at construction
    last_active,      \* VJoy._last_active
    keep_alive_timer, \* VJoy._keep_alive_timer: the Timer the handle names
    ka,               \* the thread running _keep_alive for the instance
    fg,               \* the foreground thread: the call it is inside
    fgResult,         \* how the foreground's last call ended
    acquire_calls,    \* AcquireVJD calls made by the instance's constructor
    relinquish_calls, \* RelinquishVJD calls made by the instance
    inv_calls,        \* invalidate() calls made on the instance
    inv_returned,     \* invalidate() calls that returned
    last_write,       \* time of the last successful driver write
    ka_after_release, \* the keep-alive thread called the driver after release
    fresh,            \* axes the foreground wrote since the tick's idle check
    sdl_devices,      \* joystick_devices: what SDL reports, by index
    slot_cfg,         \* joystick_devices: what opening each vJoy slot gives
    devices,          \* joystick_devices: the JoystickDeviceData list
    vjoy_lookup,      \* joystick_devices: signature -> position in devices
    jd,               \* joystick_devices: where the call is, what it logged
    proxy_devices,    \* VJoyProxy.vjoy_devices: the slots the proxy holds
    assigned,         \* the values written to each descriptor's _vjoy_id
    ab,               \* two AxisButton objects, built with (a, b) and (b, a)
    ab_limits,        \* the limits given to AxisButton.__init__
    ab_events,        \* the calls each detector made to its callback
    ab_samples,       \* the calls of process(value, callback) so far
    ax,               \* one Axis object: _value, bounds, deadzone, curve
    ax_call,          \* the last call of the Axis.value setter
    button,           \* VJoy._button of instance 1: id -> Button._is_pressed
    hat,              \* VJoy._hat of instance 1: id -> Hat._direction
    access,           \* the last read or write of a control of instance 1
    drv_write,        \* the SetAxis/SetBtn/SetContPov calls of that access
    dz_limits,        \* deadzone: low, low_center, high_center, high
    dz_calls,         \* deadzone: the last two calls, value and result
    cal_args,         \* create_calibration_function: minimum, center, maximum
    cal_fn,           \* the function create_calibration_function returned
    cal_calls,        \* the last two calls of that function
    calibration,      \* Configuration._data["calibration"]: identifier -> axis -> triple
    cfg_call,         \* the last call of Configuration.set_calibration
    g_duplicate_devices,\* gremlin.util.g_duplicate_devices
    device_id,        \* gremlin.util.device_id: the function the name is bound to
    id_devices,       \* what joystick_devices returned to the last setup
    id_setup,         \* how the last call of setup_duplicate_joysticks ended
    id_held,          \* the last device id made, by device_id or get_device_id
    id_out,           \* what extract_ids returned for the id held
    axis_exist,       \* driver: the AxisName positions GetVJDAxisExist reports
    axes_dict,        \* VJoy._axis with both kinds of key: key -> Axis.axis_id
    axis_query        \* the last call of is_axis_valid: index and result

vjVars == <<now, vJoyEnabled, vJoyVersion, VJDStatus, st, req, vjoy_id, axis,
            ctl_vjoy_id, last_active, keep_alive_timer, ka, fg, fgResult,
            acquire_calls, relinquish_calls, inv_calls, inv_returned,
            last_write, ka_after_release, fresh>>

jdVars == <<sdl_devices, slot_cfg, devices, vjoy_lookup, jd, proxy_devices,
            assigned>>

abVars == <<ab, ab_limits, ab_events, ab_samples>>

axVars == <<ax, ax_call>>

ctlVars == <<button, hat, access, drv_write>>

dzVars == <<dz_limits, dz_calls>>

calVars == <<cal_args, cal_fn, cal_calls>>

cfgVars ==
    <<calibration, cfg_call>>

idVars ==
    <<g_duplicate_devices, device_id, id_devices, id_setup, id_held,
      id_out>>

adVars ==
    <<axis_exist, axes_dict, axis_query>>

vars ==
    <<vjVars, jdVars, abVars, axVars, ctlVars, dzVars, calVars, cfgVars,
      idVars, adVars>>

(* The variables the VJoy actions leave alone.                             *)
notVJoy ==
    <<jdVars, abVars, axVars, ctlVars, dzVars, calVars, cfgVars, idVars,
      adVars>>

(* The variables the joystick_devices actions leave alone.                 *)
notMatch ==
    <<vjVars, abVars, axVars, ctlVars, dzVars, calVars, cfgVars, idVars,
      adVars>>

(* The variables the AxisButton actions leave alone.                       *)
notButton ==
    <<vjVars, jdVars, axVars, ctlVars, dzVars, calVars, cfgVars, idVars,
      adVars>>

(* The variables the Axis actions leave alone.                             *)
notAxis ==
    <<vjVars, jdVars, abVars, ctlVars, dzVars, calVars, cfgVars, idVars,
      adVars>>

(* The variables the control accesses of instance 1 leave alone.           *)
notControls ==
    <<jdVars, abVars, axVars, dzVars, calVars, cfgVars, idVars, adVars>>

(* The variables the Configuration calls leave alone.                      *)
notConfig ==
    <<vjVars, jdVars, abVars, axVars, ctlVars, dzVars, calVars, idVars,
      adVars>>

(* The variables the device id functions leave alone.                      *)
notIds ==
    <<vjVars, jdVars, abVars, axVars, ctlVars, dzVars, calVars, cfgVars,
      adVars>>

(* The variables the construction of the axis table leaves alone.          *)
notAxes ==
    <<vjVars, jdVars, abVars, axVars, ctlVars, dzVars, calVars, cfgVars,
      idVars>>

(* The variables the calibration functions leave alone.                    *)
notCalib ==
    <<vjVars, jdVars, abVars, axVars, ctlVars, dzVars, cfgVars, idVars,
      adVars>>

(* The variables the calls of deadzone leave alone.                        *)
notDeadzone ==
    <<vjVars, jdVars, abVars, axVars, ctlVars, calVars, cfgVars, idVars,
      adVars>>

Min(S) == CHOOSE x \in S : \A y \in S : x <= y
Max(S) == CHOOSE x \in S : \A y \in S : x >= y

NoTimer == [state |-> "none", deadline |-> 0]
KaIdle == [pc |-> "idle", i |-> 0, wrote |-> FALSE, seen |-> 0]
FgIdle == [op |-> "idle", d |-> 0, pc |-> "idle", i |-> 0, n |-> 0, drv |-> FALSE]

InitVJoy ==
    /\ now = 0
    /\ vJoyEnabled \in BOOLEAN
    /\ vJoyVersion \in {RequiredVersion, RequiredVersion + 1}
    /\ VJDStatus \in [Slots -> {"Free", "Busy"}]
    /\ st = [d \in Insts |-> "new"]
    /\ req = [d \in Insts |-> None]
    /\ vjoy_id = [d \in Insts |-> None]
    /\ axis = [d \in Insts |-> <<>>]
    /\ ctl_vjoy_id = [d \in Insts |-> None]
    /\ last_active = [d \in Insts |-> 0]
    /\ keep_alive_timer = [d \in Insts |-> NoTimer]
    /\ ka = [d \in Insts |-> KaIdle]
    /\ fg = FgIdle
    /\ fgResult = "none"
    /\ acquire_calls = [d \in Insts |-> 0]
    /\ relinquish_calls = [d \in Insts |-> 0]
    /\ inv_calls = [d \in Insts |-> 0]
    /\ inv_returned = [d \in Insts |-> 0]
    /\ last_write = [d \in Insts |-> 0]
    /\ ka_after_release = [d \in Insts |-> FALSE]
    /\ fresh = [d \in Insts |-> {}]

(***************************************************************************)
(* Axis.value setter: clamp, deadzone, response curve.  The quotients of   *)
(* the values used are whole multiples of 1 / One.                         *)
(***************************************************************************)
Abs(x) == IF x < 0 THEN -x ELSE x

(* int(): the quotient n / d, d > 0, truncated towards zero.               *)
Trunc(n, d) == IF n >= 0 THEN n \div d ELSE -((-n) \div d)

(* deadzone scaling by the outer limits alone.                             *)
DeadzoneOuterOnly(value, low, low_center, high_center, high) ==
    IF value >= 0
    THEN Min({One, Max({0, Trunc((value - high_center) * One, Abs(high))})})
    ELSE Max({-One, Min({0, Trunc((value - low_center) * One, Abs(low))})})

(* deadzone without the clamp at 0 of either branch.                       *)
DeadzoneNoCentre(value, low, low_center, high_center, high) ==
    IF value >= 0
    THEN Min({One, Trunc((value - high_center) * One,
                         Abs(high - high_center))})
    ELSE Max({-One, Trunc((value - low_center) * One,
                          Abs(low - low_center))})

(* lines 504-507                                                           *)
deadzone(value, low, low_center, high_center, high) ==
    IF value >= 0
    THEN Min({One, Max({0, Trunc((value - high_center) * One,
                                 Abs(high - high_center))})})
    ELSE Max({-One, Min({0, Trunc((value - low_center) * One,
                                  Abs(low - low_center))})})

(* line 84: the deadzone an Axis is created with, (-1.0, -0.0, 0.0, 1.0).  *)
DefaultDeadzone == <<-One, 0, 0, One>>

(* The response curves an Axis can hold: the identity it is created with   *)
(* (line 85), a curve x * |x| that stays within [-1, 1], and a curve that  *)
(* leaves [-1, 1] (6x / 5).                                                *)
Curves == {"identity", "quadratic", "overshoot"}

response_curve(curve, x) ==
    IF curve = "identity" THEN x
    ELSE IF curve = "quadratic" THEN Trunc(x * Abs(x), One)
    ELSE Trunc(6 * x, 5)

(* line 144: min(1.0, max(-1.0, value))                                    *)
ClampUnit(value) == Min({One, Max({-One, value})})

(* AxisPipeline applying the curve before the deadzone.                    *)
AxisPipelineCurveFirst(value, dz, curve) ==
    deadzone(response_curve(curve, ClampUnit(value)),
             dz[1], dz[2], dz[3], dz[4])

(* lines 143-145: the value the setter stores.                             *)
AxisPipeline(value, dz, curve) ==
    response_curve(curve,
                   deadzone(ClampUnit(value), dz[1], dz[2], dz[3], dz[4]))

(* The setter of an Axis that still has its default deadzone and curve.    *)
AxisStore(value) == AxisPipeline(value, DefaultDeadzone, "identity")

is_axis_valid(d, i) == i \in DOMAIN axis[d]

(* The next position reset() writes, from position i on; 0 when none.      *)
NextResetAxis(d, i) ==
    LET S == {j \in DOMAIN axis[d] : j >= i /\ j <= ResetAxisLast}
    IN  IF S = {} THEN 0 ELSE Min(S)

(* threading.Timer.cancel(): a timer that has not fired never will; one    *)
(* whose function already runs is not affected.                            *)
TimerCancel(t) ==
    IF t.state \in {"created", "waiting"}
    THEN [state |-> "cancelled", deadline |-> 0]
    ELSE t

(* threading.Timer.start(): waits for the interval unless cancelled.       *)
TimerStart(t) ==
    IF t.state = "created"
    THEN [state |-> "waiting", deadline |-> now + KeepAlivePeriod]
    ELSE t

drvCfg == <<vJoyEnabled, vJoyVersion>>
invHist == <<inv_calls, inv_returned>>

(***************************************************************************)
(* VJoy.__init__                                                           *)
(***************************************************************************)
(* CtorCheck without the slot status check of line 310.                    *)
CtorCheckNoStatus(s) ==
    IF ~vJoyEnabled THEN "not_running"
    ELSE IF vJoyVersion # RequiredVersion THEN "bad_version"
    ELSE "acquire"

(* The checks of lines 306-311, in their order: the error the constructor  *)
(* raises before AcquireVJD, or "acquire" when it goes on to line 312.     *)
CtorCheck(s) ==
    IF ~vJoyEnabled THEN "not_running"
    ELSE IF vJoyVersion # RequiredVersion THEN "bad_version"
    ELSE IF VJDStatus[s] # "Free" THEN "not_available"
    ELSE "acquire"

CtorRejects(s) == CtorCheck(s) # "acquire"

CtorFail(d, s) ==
    /\ fg.op = "idle" /\ st[d] = "new"
    /\ CtorRejects(s)
    /\ st' = [st EXCEPT ![d] = "failed"]
    /\ req' = [req EXCEPT ![d] = s]
    /\ fgResult' = CtorCheck(s)
    /\ UNCHANGED fresh
    /\ UNCHANGED notVJoy
    /\ UNCHANGED <<now, drvCfg, VJDStatus, vjoy_id, axis, ctl_vjoy_id,
                   last_active, keep_alive_timer, ka, fg, acquire_calls,
                   relinquish_calls, invHist, last_write, ka_after_release>>

(* AcquireVJD refuses: the constructor raises.                             *)
CtorRefused(d, s) ==
    /\ fg.op = "idle" /\ st[d] = "new"
    /\ ~CtorRejects(s)
    /\ acquire_calls' = [acquire_calls EXCEPT ![d] = @ + 1]
    /\ st' = [st EXCEPT ![d] = "failed"]
    /\ req' = [req EXCEPT ![d] = s]
    /\ fgResult' = "acquire_failed"
    /\ UNCHANGED fresh
    /\ UNCHANGED notVJoy
    /\ UNCHANGED <<now, drvCfg, VJDStatus, vjoy_id, axis, ctl_vjoy_id,
                   last_active, keep_alive_timer, ka, fg,
                   relinquish_calls, invHist, last_write, ka_after_release>>

(* AcquireVJD succeeds: lines 315-325, up to the call of reset().          *)
CtorAcquire(d, s) ==
    /\ fg.op = "idle" /\ st[d] = "new"
    /\ ~CtorRejects(s)
    /\ acquire_calls' = [acquire_calls EXCEPT ![d] = @ + 1]
    /\ VJDStatus' = [VJDStatus EXCEPT ![s] = "Own"]
    /\ st' = [st EXCEPT ![d] = "ctor"]
    /\ req' = [req EXCEPT ![d] = s]
    /\ vjoy_id' = [vjoy_id EXCEPT ![d] = s]
    /\ axis' = [axis EXCEPT ![d] = [a \in DrvAxes(s) |-> 0]]
    /\ ctl_vjoy_id' = [ctl_vjoy_id EXCEPT ![d] = s]
    /\ last_active' = [last_active EXCEPT ![d] = now]
    /\ keep_alive_timer' = [keep_alive_timer EXCEPT ![d] =
           TimerStart([state |-> "created", deadline |-> 0])]
    /\ fg' = [op |-> "ctor", d |-> d, pc |-> "reset", i |-> 0, n |-> 0,
              drv |-> FALSE]
    /\ UNCHANGED fresh
    /\ UNCHANGED notVJoy
    /\ UNCHANGED <<now, drvCfg, ka, fgResult, relinquish_calls, invHist,
                   last_write, ka_after_release>>

(***************************************************************************)
(* VJoy.reset() on the foreground thread (inside __init__ or invalidate).  *)
(***************************************************************************)
(* The foreground's position once reset() has returned.                    *)
FgAfterReset(f) ==
    IF f.op = "ctor" THEN FgIdle ELSE [f EXCEPT !.pc = "relinquish", !.i = 0]

FgLeavesReset(f, j) ==
    IF j = 0 THEN FgAfterReset(f) ELSE [f EXCEPT !.pc = "axes", !.i = j]

(* line 398: VJoyInterface.ResetVJD(self.vjoy_id)                          *)
FgResetVJD ==
    /\ fg.pc = "reset"
    /\ LET d == fg.d
           f == FgLeavesReset([fg EXCEPT !.drv = TRUE], NextResetAxis(d, 1))
       IN  /\ fg' = f
           /\ last_write' = [last_write EXCEPT ![d] = now]
           /\ st' = IF f.op = "idle" THEN [st EXCEPT ![d] = "live"] ELSE st
           /\ fgResult' = IF f.op = "idle" THEN "ok" ELSE fgResult
    /\ UNCHANGED fresh
    /\ UNCHANGED notVJoy
    /\ UNCHANGED <<now, drvCfg, VJDStatus, req, vjoy_id, axis, ctl_vjoy_id,
                   last_active, keep_alive_timer, ka, acquire_calls,
                   relinquish_calls, invHist, ka_after_release>>

(* line 404: self.axis(i).value = 0.0, the driver accepting the write.     *)
FgResetAxis ==
    /\ fg.pc = "axes"
    /\ LET d == fg.d
           f == FgLeavesReset([fg EXCEPT !.drv = TRUE],
                              NextResetAxis(d, fg.i + 1))
       IN  /\ axis' = [axis EXCEPT ![d][fg.i] = AxisStore(0)]
           /\ last_active' = [last_active EXCEPT ![d] = now]
           /\ last_write' = [last_write EXCEPT ![d] = now]
           /\ fg' = f
           /\ st' = IF f.op = "idle" THEN [st EXCEPT ![d] = "live"] ELSE st
           /\ fgResult' = IF f.op = "idle" THEN "ok" ELSE fgResult
    /\ UNCHANGED fresh
    /\ UNCHANGED notVJoy
    /\ UNCHANGED <<now, drvCfg, VJDStatus, req, vjoy_id, ctl_vjoy_id,
                   keep_alive_timer, ka, acquire_calls, relinquish_calls,
                   invHist, ka_after_release>>

(* line 404 with SetAxis returning false: the setter raises VJoyError,     *)
(* which leaves reset() and the call it is part of.                        *)
FgResetAxisFails ==
    /\ fg.pc = "axes"
    /\ LET d == fg.d
       IN  /\ axis' = [axis EXCEPT ![d][fg.i] = AxisStore(0)]
           /\ st' = IF fg.op = "ctor" THEN [st EXCEPT ![d] = "failed"] ELSE st
    /\ fg' = FgIdle
    /\ fgResult' = "write_failed"
    /\ UNCHANGED fresh
    /\ UNCHANGED notVJoy
    /\ UNCHANGED <<now, drvCfg, VJDStatus, req, vjoy_id, ctl_vjoy_id,
                   last_active, keep_alive_timer, ka, acquire_calls,
                   relinquish_calls, invHist, last_write, ka_after_release>>

(***************************************************************************)
(* VJoy.invalidate()                                                       *)
(***************************************************************************)
(* line 416 on a device whose vjoy_id is unset: nothing is done.           *)
InvalidateReleased(d) ==
    /\ fg.op = "idle" /\ st[d] = "live"
    /\ inv_calls[d] < MaxInval
    /\ vjoy_id[d] = None
    /\ inv_calls' = [inv_calls EXCEPT ![d] = @ + 1]
    /\ inv_returned' = [inv_returned EXCEPT ![d] = @ + 1]
    /\ fgResult' = "ok"
    /\ UNCHANGED fresh
    /\ UNCHANGED notVJoy
    /\ UNCHANGED <<now, drvCfg, VJDStatus, st, req, vjoy_id, axis,
                   ctl_vjoy_id, last_active, keep_alive_timer, ka, fg,
                   acquire_calls, relinquish_calls, last_write,
                   ka_after_release>>

(* line 416 with vjoy_id set: enters reset() (line 417).                   *)
InvalidateBegin(d) ==
    /\ fg.op = "idle" /\ st[d] = "live"
    /\ inv_calls[d] < MaxInval
    /\ vjoy_id[d] # None
    /\ inv_calls' = [inv_calls EXCEPT ![d] = @ + 1]
    /\ fg' = [op |-> "inval", d |-> d, pc |-> "reset", i |-> 0,
              n |-> inv_calls[d] + 1, drv |-> FALSE]
    /\ UNCHANGED fresh
    /\ UNCHANGED notVJoy
    /\ UNCHANGED <<now, drvCfg, VJDStatus, st, req, vjoy_id, axis,
                   ctl_vjoy_id, last_active, keep_alive_timer, ka, fgResult,
                   acquire_calls, relinquish_calls, inv_returned, last_write,
                   ka_after_release>>

(* line 418: VJoyInterface.RelinquishVJD(self.vjoy_id)                     *)
InvalidateRelinquish ==
    /\ fg.pc = "relinquish"
    /\ LET d == fg.d
       IN  /\ VJDStatus' = [VJDStatus EXCEPT ![vjoy_id[d]] = "Free"]
           /\ relinquish_calls' = [relinquish_calls EXCEPT ![d] = @ + 1]
    /\ fg' = [fg EXCEPT !.pc = "clear", !.drv = TRUE]
    /\ UNCHANGED fresh
    /\ UNCHANGED notVJoy
    /\ UNCHANGED <<now, drvCfg, st, req, vjoy_id, axis, ctl_vjoy_id,
                   last_active, keep_alive_timer, ka, fgResult, acquire_calls,
                   invHist, last_write, ka_after_release>>

(* InvalidateClear leaving vjoy_id set.                                    *)
InvalidateClearKeepsId ==
    /\ fg.pc = "clear"
    /\ fg' = [fg EXCEPT !.pc = "cancel"]
    /\ UNCHANGED fresh
    /\ UNCHANGED notVJoy
    /\ UNCHANGED <<now, drvCfg, VJDStatus, st, req, vjoy_id, axis, ctl_vjoy_id,
                   last_active, keep_alive_timer, ka, fgResult, acquire_calls,
                   relinquish_calls, invHist, last_write, ka_after_release>>

(* line 419: self.vjoy_id = None                                           *)
InvalidateClear ==
    /\ fg.pc = "clear"
    /\ vjoy_id' = [vjoy_id EXCEPT ![fg.d] = None]
    /\ fg' = [fg EXCEPT !.pc = "cancel"]
    /\ UNCHANGED fresh
    /\ UNCHANGED notVJoy
    /\ UNCHANGED <<now, drvCfg, VJDStatus, st, req, axis, ctl_vjoy_id,
                   last_active, keep_alive_timer, ka, fgResult, acquire_calls,
                   relinquish_calls, invHist, last_write, ka_after_release>>

(* line 420: self._keep_alive_timer.cancel(), and invalidate() returns.    *)
InvalidateCancel ==
    /\ fg.pc = "cancel"
    /\ keep_alive_timer' = [keep_alive_timer EXCEPT ![fg.d] = TimerCancel(@)]
    /\ inv_returned' = [inv_returned EXCEPT ![fg.d] = @ + 1]
    /\ fg' = FgIdle
    /\ fgResult' = "ok"
    /\ UNCHANGED fresh
    /\ UNCHANGED notVJoy
    /\ UNCHANGED <<now, drvCfg, VJDStatus, st, req, vjoy_id, axis,
                   ctl_vjoy_id, last_active, ka, acquire_calls,
                   relinquish_calls, inv_calls, last_write, ka_after_release>>

(***************************************************************************)
(* Control access by the foreground thread on a device it holds.           *)
(***************************************************************************)
(* The foreground wrote axis a of d: the write is fresh input for a tick   *)
(* that has found the device idle (line 428) and is inside reset().        *)
FreshAfterWrite(d, a) ==
    [fresh EXCEPT ![d] = IF ka[d].pc \in {"reset", "axes"} THEN @ \cup {a} ELSE @]

(* Axis.value setter, lines 143-153, SetAxis returning true.               *)
WriteAxis(d, a, v) ==
    /\ fg.op = "idle" /\ st[d] = "live" /\ vjoy_id[d] # None
    /\ is_axis_valid(d, a)
    /\ axis' = [axis EXCEPT ![d][a] = AxisStore(v)]
    /\ last_active' = [last_active EXCEPT ![d] = now]
    /\ last_write' = [last_write EXCEPT ![d] = now]
    /\ fgResult' = "ok"
    /\ fresh' = FreshAfterWrite(d, a)
    /\ UNCHANGED notVJoy
    /\ UNCHANGED <<now, drvCfg, VJDStatus, st, req, vjoy_id, ctl_vjoy_id,
                   keep_alive_timer, ka, fg, acquire_calls, relinquish_calls,
                   invHist, ka_after_release>>

(* Axis.value setter, SetAxis returning false: raises before used().       *)
WriteAxisFails(d, a, v) ==
    /\ fg.op = "idle" /\ st[d] = "live" /\ vjoy_id[d] # None
    /\ is_axis_valid(d, a)
    /\ axis' = [axis EXCEPT ![d][a] = AxisStore(v)]
    /\ fgResult' = "write_failed"
    /\ UNCHANGED fresh
    /\ UNCHANGED notVJoy
    /\ UNCHANGED <<now, drvCfg, VJDStatus, st, req, vjoy_id, ctl_vjoy_id,
                   last_active, keep_alive_timer, ka, fg, acquire_calls,
                   relinquish_calls, invHist, last_write, ka_after_release>>

(* Axis.value getter, lines 124-125.                                       *)
ReadAxis(d, a) ==
    /\ fg.op = "idle" /\ st[d] = "live" /\ vjoy_id[d] # None
    /\ is_axis_valid(d, a)
    /\ last_active' = [last_active EXCEPT ![d] = now]
    /\ fgResult' = "ok"
    /\ UNCHANGED fresh
    /\ UNCHANGED notVJoy
    /\ UNCHANGED <<now, drvCfg, VJDStatus, st, req, vjoy_id, axis,
                   ctl_vjoy_id, keep_alive_timer, ka, fg, acquire_calls,
                   relinquish_calls, invHist, last_write, ka_after_release>>

(***************************************************************************)
(* The keep-alive timer thread: threading.Timer.run and VJoy._keep_alive.  *)
(***************************************************************************)
(* The interval has passed and the timer was not cancelled: its thread     *)
(* calls _keep_alive.                                                      *)
TimerFires(d) ==
    /\ keep_alive_timer[d].state = "waiting"
    /\ now >= keep_alive_timer[d].deadline
    /\ keep_alive_timer' = [keep_alive_timer EXCEPT ![d] =
           [state |-> "fired", deadline |-> 0]]
    /\ ka' = [ka EXCEPT ![d] = [KaIdle EXCEPT !.pc = "check"]]
    /\ fresh' = [fresh EXCEPT ![d] = {}]
    /\ UNCHANGED notVJoy
    /\ UNCHANGED <<now, drvCfg, VJDStatus, st, req, vjoy_id, axis,
                   ctl_vjoy_id, last_active, fg, fgResult, acquire_calls,
                   relinquish_calls, invHist, last_write, ka_after_release>>

(* KeepAliveIdle with <= for <.                                            *)
KeepAliveIdleOrEqual(d) == last_active[d] + KeepAlivePeriod <= now

(* line 428: the idle check.                                               *)
KeepAliveIdle(d) == last_active[d] + KeepAlivePeriod < now

(* line 428; seen is the value of _last_active the check read.             *)
KeepAliveCheck(d) ==
    /\ ka[d].pc = "check"
    /\ ka' = [ka EXCEPT ![d].pc = IF KeepAliveIdle(d) THEN "reset" ELSE "arm",
                        ![d].seen = last_active[d]]
    /\ UNCHANGED fresh
    /\ UNCHANGED notVJoy
    /\ UNCHANGED <<now, drvCfg, VJDStatus, st, req, vjoy_id, axis,
                   ctl_vjoy_id, last_active, keep_alive_timer, fg, fgResult,
                   acquire_calls, relinquish_calls, invHist, last_write,
                   ka_after_release>>

KaLeavesReset(k, j) ==
    IF j = 0 THEN [k EXCEPT !.pc = "arm", !.i = 0]
    ELSE [k EXCEPT !.pc = "axes", !.i = j]

(* The device's slot was released before this driver call.                 *)
AfterRelease(d) == relinquish_calls[d] > 0

(* line 429 -> 398: ResetVJD(self.vjoy_id) on the timer thread.            *)
KeepAliveResetVJD(d) ==
    /\ ka[d].pc = "reset"
    /\ ka' = [ka EXCEPT ![d] =
           KaLeavesReset([@ EXCEPT !.wrote = TRUE], NextResetAxis(d, 1))]
    /\ last_write' = [last_write EXCEPT ![d] = now]
    /\ ka_after_release' =
           [ka_after_release EXCEPT ![d] = @ \/ AfterRelease(d)]
    /\ UNCHANGED fresh
    /\ UNCHANGED notVJoy
    /\ UNCHANGED <<now, drvCfg, VJDStatus, st, req, vjoy_id, axis,
                   ctl_vjoy_id, last_active, keep_alive_timer, fg, fgResult,
                   acquire_calls, relinquish_calls, invHist>>

(* line 429 -> 404: axis(i).value = 0.0 on the timer thread.               *)
KeepAliveResetAxis(d) ==
    /\ ka[d].pc = "axes"
    /\ axis' = [axis EXCEPT ![d][ka[d].i] = AxisStore(0)]
    /\ last_active' = [last_active EXCEPT ![d] = now]
    /\ last_write' = [last_write EXCEPT ![d] = now]
    /\ ka' = [ka EXCEPT ![d] = KaLeavesReset(@, NextResetAxis(d, @.i + 1))]
    /\ ka_after_release' =
           [ka_after_release EXCEPT ![d] = @ \/ AfterRelease(d)]
    /\ UNCHANGED fresh
    /\ UNCHANGED notVJoy
    /\ UNCHANGED <<now, drvCfg, VJDStatus, st, req, vjoy_id, ctl_vjoy_id,
                   keep_alive_timer, fg, fgResult, acquire_calls,
                   relinquish_calls, invHist>>

(* SetAxis returns false on the timer thread: VJoyError ends the thread    *)
(* before line 430, so no timer is armed.                                  *)
KeepAliveResetAxisFails(d) ==
    /\ ka[d].pc = "axes"
    /\ axis' = [axis EXCEPT ![d][ka[d].i] = AxisStore(0)]
    /\ ka' = [ka EXCEPT ![d] = [KaIdle EXCEPT !.pc = "dead"]]
    /\ ka_after_release' =
           [ka_after_release EXCEPT ![d] = @ \/ AfterRelease(d)]
    /\ UNCHANGED fresh
    /\ UNCHANGED notVJoy
    /\ UNCHANGED <<now, drvCfg, VJDStatus, st, req, vjoy_id, ctl_vjoy_id,
                   last_active, keep_alive_timer, fg, fgResult, acquire_calls,
                   relinquish_calls, invHist, last_write>>

(* line 430: self._keep_alive_timer = threading.Timer(60.0, ...)           *)
KeepAliveArm(d) ==
    /\ ka[d].pc = "arm"
    /\ keep_alive_timer' = [keep_alive_timer EXCEPT ![d] =
           [state |-> "created", deadline |-> 0]]
    /\ ka' = [ka EXCEPT ![d].pc = "start"]
    /\ UNCHANGED fresh
    /\ UNCHANGED notVJoy
    /\ UNCHANGED <<now, drvCfg, VJDStatus, st, req, vjoy_id, axis,
                   ctl_vjoy_id, last_active, fg, fgResult, acquire_calls,
                   relinquish_calls, invHist, last_write, ka_after_release>>

(* line 431: self._keep_alive_timer.start(); the callback returns.         *)
KeepAliveStart(d) ==
    /\ ka[d].pc = "start"
    /\ keep_alive_timer' = [keep_alive_timer EXCEPT ![d] = TimerStart(@)]
    /\ ka' = [ka EXCEPT ![d] = KaIdle]
    /\ UNCHANGED fresh
    /\ UNCHANGED notVJoy
    /\ UNCHANGED <<now, drvCfg, VJDStatus, st, req, vjoy_id, axis,
                   ctl_vjoy_id, last_active, fg, fgResult, acquire_calls,
                   relinquish_calls, invHist, last_write, ka_after_release>>

(***************************************************************************)
(* The clock.  Calls are bounded-time: time passes while no call is in     *)
(* progress, and a timer fires when its interval has passed.               *)
(***************************************************************************)
Deadlines ==
    {keep_alive_timer[d].deadline :
        d \in {e \in Insts : keep_alive_timer[e].state = "waiting"}}

AdvanceTime ==
    /\ fg.op = "idle"
    /\ \A d \in Insts : ka[d].pc \in {"idle", "dead"}
    /\ now' = Min({now + TimeStep, MaxTime} \cup Deadlines)
    /\ now' > now
    /\ UNCHANGED fresh
    /\ UNCHANGED notVJoy
    /\ UNCHANGED <<drvCfg, VJDStatus, st, req, vjoy_id, axis, ctl_vjoy_id,
                   last_active, keep_alive_timer, ka, fg, fgResult,
                   acquire_calls, relinquish_calls, invHist, last_write,
                   ka_after_release>>

(***************************************************************************)
(* gremlin.util.joystick_devices                                           *)
(***************************************************************************)
(* What SDL can report for one device index: SDL_JoystickOpen failing, a   *)
(* device whose name cannot be read, physical sticks and vJoy devices.     *)
RawDevs ==
    { [open |-> TRUE,  name |-> "vJoy Device", axes |-> 4, buttons |-> 8, hats |-> 1],
      [open |-> TRUE,  name |-> "vJoy Device", axes |-> 2, buttons |-> 8, hats |-> 1],
      [open |-> TRUE,  name |-> "Stick",       axes |-> 4, buttons |-> 8, hats |-> 1],
      [open |-> TRUE,  name |-> "none",        axes |-> 2, buttons |-> 8, hats |-> 1],
      [open |-> FALSE, name |-> "none",        axes |-> 0, buttons |-> 0, hats |-> 0] }

(* The slots that may hold a vJoy device; every other slot of 1..16 is     *)
(* missing.                                                                *)
ProbeSlots == {1, 2, MaxSlot}

(* What the driver holds at a slot: nothing that can be opened, or a       *)
(* device with so many existing axes, buttons and hats.                    *)
Closed == [present |-> FALSE, axes |-> 0, buttons |-> 0, hats |-> 0]
SlotOutcomes ==
    { Closed,
      [present |-> TRUE, axes |-> 4, buttons |-> 8, hats |-> 1],
      [present |-> TRUE, axes |-> 2, buttons |-> 8, hats |-> 1],
      [present |-> TRUE, axes |-> 4, buttons |-> 2, hats |-> 0] }

SeqsUpTo(S, n) == UNION {[1..k -> S] : k \in 0..n}

JdIdle == [pc |-> "off", i |-> 0, err |-> "none", log |-> <<>>]

InitMatch ==
    /\ sdl_devices \in SeqsUpTo(RawDevs, MaxDev)
    /\ slot_cfg \in [ProbeSlots -> SlotOutcomes]
    /\ devices = <<>>
    /\ vjoy_lookup = <<>>
    /\ jd = [pc |-> "enumerate", i |-> 0, err |-> "none", log |-> <<>>]
    /\ proxy_devices = {}
    /\ assigned = <<>>

(* JoystickDeviceData.__init__, lines 106-125.                             *)
JoystickDeviceData(raw) ==
    LET name == IF raw.name = "none" THEN "Unknown device" ELSE raw.name
    IN  [name |-> name,
         is_virtual |-> (name = "vJoy Device"),
         axes |-> raw.axes, buttons |-> raw.buttons, hats |-> raw.hats,
         vjoy_id |-> 0]

(* Described leaving out the devices whose name cannot be read.            *)
RECURSIVE DescribedSkipsUnnamed(_)
DescribedSkipsUnnamed(raws) ==
    IF raws = <<>> THEN <<>>
    ELSE LET rest == DescribedSkipsUnnamed(SubSeq(raws, 1, Len(raws) - 1))
             last == raws[Len(raws)]
         IN  IF last.open /\ last.name # "none"
             THEN Append(rest, JoystickDeviceData(last))
             ELSE rest

(* The errors logged while enumerating: line 210 for a device that cannot  *)
(* be opened, line 116 for a device whose name cannot be read.             *)
RECURSIVE EnumerationLog(_)
EnumerationLog(raws) ==
    IF raws = <<>> THEN <<>>
    ELSE LET rest == EnumerationLog(SubSeq(raws, 1, Len(raws) - 1))
             last == raws[Len(raws)]
         IN  IF ~last.open THEN Append(rest, "Invalid joystick device")
             ELSE IF last.name = "none"
                  THEN Append(rest, "Encountered an invalid device name")
                  ELSE rest

RECURSIVE Described(_)
Described(raws) ==
    IF raws = <<>> THEN <<>>
    ELSE LET rest == Described(SubSeq(raws, 1, Len(raws) - 1))
             last == raws[Len(raws)]
         IN  IF last.open THEN Append(rest, JoystickDeviceData(last))
             ELSE rest

(* lines 205-214: one descriptor per device SDL can open.                  *)
Enumerate ==
    /\ jd.pc = "enumerate"
    /\ devices' = Described(sdl_devices)
    /\ assigned' = [k \in 1..Len(Described(sdl_devices)) |-> <<>>]
    /\ jd' = [jd EXCEPT !.pc = "lookup", !.log = EnumerationLog(sdl_devices)]
    /\ UNCHANGED notMatch
    /\ UNCHANGED <<sdl_devices, slot_cfg, vjoy_lookup, proxy_devices>>

Signature(dev) == <<dev.axes, dev.buttons, dev.hats>>

(* Virtual taking in every descriptor.                                     *)
VirtualOrNot == 1..Len(devices)

(* line 221: the descriptors the loop does not skip.                       *)
Virtual == {k \in 1..Len(devices) : devices[k].is_virtual}

(* line 224: some virtual device's signature is already in the table.      *)
Indistinguishable ==
    \E k, l \in Virtual : k < l /\ Signature(devices[k]) = Signature(devices[l])

(* lines 219-228 when no signature repeats.                                *)
LookupTable ==
    [h \in {Signature(devices[k]) : k \in Virtual} |->
        CHOOSE k \in Virtual : Signature(devices[k]) = h]

BuildLookup ==
    /\ jd.pc = "lookup"
    /\ ~Indistinguishable
    /\ vjoy_lookup' = LookupTable
    /\ jd' = [jd EXCEPT !.pc = "probe", !.i = 1]
    /\ UNCHANGED notMatch
    /\ UNCHANGED <<sdl_devices, slot_cfg, devices, proxy_devices, assigned>>

(* LookupRaises overwriting the table entry instead of raising.            *)
LookupOverwrites ==
    /\ jd.pc = "lookup"
    /\ Indistinguishable
    /\ vjoy_lookup' = LookupTable
    /\ jd' = [jd EXCEPT !.pc = "probe", !.i = 1]
    /\ UNCHANGED notMatch
    /\ UNCHANGED <<sdl_devices, slot_cfg, devices, proxy_devices, assigned>>

(* lines 225-227: GremlinError("Indistinguishable vJoy devices present")   *)
LookupRaises ==
    /\ jd.pc = "lookup"
    /\ Indistinguishable
    /\ jd' = [jd EXCEPT !.pc = "raised", !.err = "indistinguishable"]
    /\ UNCHANGED notMatch
    /\ UNCHANGED <<sdl_devices, slot_cfg, devices, vjoy_lookup, proxy_devices,
                   assigned>>

(* What vjoy_proxy[i] gives: the slot's device, or Closed when VJoy(i)     *)
(* raises VJoyError.                                                       *)
SlotAt(i) == IF i \in ProbeSlots THEN slot_cfg[i] ELSE Closed

(* VJoy.axis_count: each existing axis is in _axis under two keys.         *)
AxisCount(c) == 2 * c.axes

(* SlotHash comparing the raw axis count.                                  *)
SlotHashNoHalving(c) == <<AxisCount(c), c.buttons, c.hats>>

(* lines 239-244: the hash of the opened slot, its axis count halved.      *)
SlotHash(c) == <<AxisCount(c) \div 2, c.buttons, c.hats>>

(* The loop of line 236 moves on to the next slot, or leaves for line 256. *)
JdNextSlot(j) ==
    IF j.i = MaxSlot THEN [j EXCEPT !.pc = "reset"] ELSE [j EXCEPT !.i = @ + 1]

(* ProbeClosed letting the VJoyError leave joystick_devices.               *)
ProbeClosedRaises ==
    /\ jd.pc = "probe"
    /\ ~SlotAt(jd.i).present
    /\ jd' = [jd EXCEPT !.pc = "raised", !.err = "closed"]
    /\ UNCHANGED notMatch
    /\ UNCHANGED <<sdl_devices, slot_cfg, devices, vjoy_lookup, proxy_devices,
                   assigned>>

(* lines 238, 252-253: vjoy_proxy[i] raises VJoyError, which is passed.    *)
ProbeClosed ==
    /\ jd.pc = "probe"
    /\ ~SlotAt(jd.i).present
    /\ jd' = JdNextSlot(jd)
    /\ UNCHANGED notMatch
    /\ UNCHANGED <<sdl_devices, slot_cfg, devices, vjoy_lookup, proxy_devices,
                   assigned>>

(* lines 238-246: the slot opens and its hash is in the table.             *)
ProbeMatch ==
    /\ jd.pc = "probe"
    /\ SlotAt(jd.i).present
    /\ SlotHash(SlotAt(jd.i)) \in DOMAIN vjoy_lookup
    /\ LET k == vjoy_lookup[SlotHash(SlotAt(jd.i))]
       IN  /\ devices' = [devices EXCEPT ![k].vjoy_id = jd.i]
           /\ assigned' = [assigned EXCEPT ![k] = Append(@, jd.i)]
    /\ proxy_devices' = proxy_devices \cup {jd.i}
    /\ jd' = JdNextSlot(jd)
    /\ UNCHANGED notMatch
    /\ UNCHANGED <<sdl_devices, slot_cfg, vjoy_lookup>>

(* ProbeUnmatched passing the error like a VJoyError.                      *)
ProbeUnmatchedPasses ==
    /\ jd.pc = "probe"
    /\ SlotAt(jd.i).present
    /\ SlotHash(SlotAt(jd.i)) \notin DOMAIN vjoy_lookup
    /\ proxy_devices' = proxy_devices \cup {jd.i}
    /\ jd' = [JdNextSlot(jd) EXCEPT !.err = "unmatched"]
    /\ UNCHANGED notMatch
    /\ UNCHANGED <<sdl_devices, slot_cfg, devices, vjoy_lookup, assigned>>

(* lines 248-251: the slot opens and its hash is not in the table; the     *)
(* GremlinError is not a VJoyError and leaves joystick_devices.            *)
ProbeUnmatched ==
    /\ jd.pc = "probe"
    /\ SlotAt(jd.i).present
    /\ SlotHash(SlotAt(jd.i)) \notin DOMAIN vjoy_lookup
    /\ proxy_devices' = proxy_devices \cup {jd.i}
    /\ jd' = [jd EXCEPT !.pc = "raised", !.err = "unmatched"]
    /\ UNCHANGED notMatch
    /\ UNCHANGED <<sdl_devices, slot_cfg, devices, vjoy_lookup, assigned>>

(* lines 256-258: VJoyProxy.reset(), then the list is returned.            *)
ProxyReset ==
    /\ jd.pc = "reset"
    /\ proxy_devices' = {}
    /\ jd' = [jd EXCEPT !.pc = "done"]
    /\ UNCHANGED notMatch
    /\ UNCHANGED <<sdl_devices, slot_cfg, devices, vjoy_lookup, assigned>>

(***************************************************************************)
(* gremlin.util.AxisButton                                                 *)
(***************************************************************************)
MaxSamples == 4

(* The limits a detector is built with, the sampled values and the         *)
(* callbacks handed to process().                                          *)
Limits == {40, 60}
Samples == {5, 40, 50, 55, 70}
Callbacks == {"cb1", "cb2"}

(* Detector 1 is AxisButton(a, b), detector 2 is AxisButton(b, a).         *)
Detectors == {1, 2}

(* AxisButtonInit keeping the limits in the order given.                   *)
AxisButtonInitNoSwap(lower_limit, upper_limit) ==
    [lower_limit |-> lower_limit, upper_limit |-> upper_limit,
     callback |-> "None", current_state |-> "up"]

(* AxisButton.__init__, lines 162-166; the machine starts in "up" (177).   *)
AxisButtonInit(lower_limit, upper_limit) ==
    [lower_limit |-> Min({lower_limit, upper_limit}),
     upper_limit |-> Max({lower_limit, upper_limit}),
     callback |-> "None", current_state |-> "up"]

InitButton ==
    /\ ab_limits \in Limits \X Limits
    /\ ab = [k \in Detectors |->
              IF k = 1 THEN AxisButtonInit(ab_limits[1], ab_limits[2])
              ELSE AxisButtonInit(ab_limits[2], ab_limits[1])]
    /\ ab_events = [k \in Detectors |-> <<>>]
    /\ ab_samples = <<>>

(* InWindow with the bounds excluded.                                      *)
InWindowStrict(b, value) == b.lower_limit < value /\ value < b.upper_limit

(* line 181: self._lower_limit <= value <= self._upper_limit               *)
InWindow(b, value) == b.lower_limit <= value /\ value <= b.upper_limit

(* lines 181-184: the action process() hands to the machine.               *)
ButtonAction(b, value) == IF InWindow(b, value) THEN "press" ELSE "release"

(* Transitions calling _press on every sample inside the window.           *)
TransitionsLevel(state, action) ==
    IF action = "press" THEN [callback |-> "_press", new_state |-> "down"]
    ELSE IF state = "down" THEN [callback |-> "_release", new_state |-> "up"]
    ELSE [callback |-> "_noop", new_state |-> "up"]

(* lines 171-176: the transition table.                                    *)
Transitions(state, action) ==
    IF state = "up" /\ action = "press"
    THEN [callback |-> "_press", new_state |-> "down"]
    ELSE IF state = "up" /\ action = "release"
    THEN [callback |-> "_noop", new_state |-> "up"]
    ELSE IF state = "down" /\ action = "release"
    THEN [callback |-> "_release", new_state |-> "up"]
    ELSE [callback |-> "_noop", new_state |-> "down"]

(* lines 186-193: what _press, _release and _noop call.                    *)
Emitted(b, method) ==
    IF method = "_press" THEN <<[callback |-> b.callback, pressed |-> TRUE]>>
    ELSE IF method = "_release"
    THEN <<[callback |-> b.callback, pressed |-> FALSE]>>
    ELSE <<>>

(* FiniteStateMachine.perform: the transition's callback is called and the *)
(* machine moves to the transition's new state.                            *)
Perform(b, action) ==
    [b EXCEPT !.current_state = Transitions(b.current_state, action).new_state]

(* lines 195-197                                                           *)
is_pressed(b) == b.current_state = "down"

(* AxisButton.process, lines 179-184, on both detectors.                   *)
Process(value, callback) ==
    /\ Len(ab_samples) < MaxSamples
    /\ LET called == [k \in Detectors |-> [ab[k] EXCEPT !.callback = callback]]
           action == [k \in Detectors |-> ButtonAction(called[k], value)]
       IN  /\ ab' = [k \in Detectors |-> Perform(called[k], action[k])]
           /\ ab_events' = [k \in Detectors |->
                  ab_events[k] \o
                  Emitted(called[k],
                          Transitions(called[k].current_state,
                                      action[k]).callback)]
    /\ ab_samples' = Append(ab_samples, [value |-> value, callback |-> callback])
    /\ UNCHANGED ab_limits
    /\ UNCHANGED notButton

(***************************************************************************)
(* vjoy.Axis: one axis control with its deadzone and response curve.       *)
(***************************************************************************)
(* The driver's axis maximum (GetVJDAxisMax); the minimum is 0.            *)
AxisMaxes == {32767, 32768}

(* The deadzones set_deadzone is called with (the last has high equal to   *)
(* high_center), and the values written.                                   *)
Deadzones == {DefaultDeadzone, <<-One, -5000, 5000, One>>,
              <<-One, 0, One, One>>}
RawVals == {-15000, -One, -7500, -5000, 0, 5000, 7500, One, 15000}

NoCall == [n |-> 0, value |-> 0, dz |-> DefaultDeadzone, curve |-> "identity",
           stored |-> 0, raw |-> 0, ok |-> TRUE, err |-> "none"]

(* HalfRange rounding up.                                                  *)
HalfRangeUp(max_value) == (max_value + 1) \div 2

(* line 82: int(self._max_value / 2)                                       *)
HalfRange(max_value) == Trunc(max_value, 2)

(* lines 505, 507: the division of the branch taken is by zero.            *)
DeadzoneDivides(value, dz) ==
    IF ClampUnit(value) >= 0 THEN dz[4] = dz[3] ELSE dz[1] = dz[2]

(* Axis.__init__, lines 63-89, for an axis whose minimum is 0.             *)
AxisInit(max_value) ==
    [value |-> 0, min_value |-> 0, max_value |-> max_value,
     half_range |-> HalfRange(max_value),
     dz |-> DefaultDeadzone, curve |-> "identity"]

InitAxis ==
    /\ ax \in {AxisInit(m) : m \in AxisMaxes}
    /\ ax_call = NoCall

(* set_deadzone that also puts the stored value back to 0.                 *)
SetDeadzoneResets(dz) ==
    /\ ax.dz # dz
    /\ ax' = [ax EXCEPT !.dz = dz, !.value = 0]
    /\ UNCHANGED ax_call
    /\ UNCHANGED notAxis

(* Axis.set_deadzone, lines 114-116.                                       *)
SetDeadzone(dz) ==
    /\ ax.dz # dz
    /\ ax' = [ax EXCEPT !.dz = dz]
    /\ UNCHANGED ax_call
    /\ UNCHANGED notAxis

(* Axis.set_response_curve, lines 97-104.                                  *)
SetResponseCurve(curve) ==
    /\ ax.curve # curve
    /\ ax' = [ax EXCEPT !.curve = curve]
    /\ UNCHANGED ax_call
    /\ UNCHANGED notAxis

(* line 148: int(self._half_range + self._half_range * self._value)        *)
AxisRaw(half_range, value) == Trunc(half_range * One + half_range * value, One)

(* Axis.value setter, lines 143-153; ok is what SetAxis returns (false     *)
(* makes the setter raise VJoyError after the value was stored).           *)
AxisSet(value, ok) ==
    /\ ~DeadzoneDivides(value, ax.dz)
    /\ LET stored == AxisPipeline(value, ax.dz, ax.curve)
       IN  /\ ax' = [ax EXCEPT !.value = stored]
           /\ ax_call' = [n |-> 1, value |-> value, dz |-> ax.dz,
                          curve |-> ax.curve, stored |-> stored,
                          raw |-> AxisRaw(ax.half_range, stored), ok |-> ok,
                          err |-> IF ok THEN "none" ELSE "VJoyError"]
    /\ UNCHANGED notAxis

(* Axis.value setter, line 143-145, when the deadzone divides by zero: the *)
(* ZeroDivisionError leaves the setter before _value is assigned and       *)
(* before SetAxis is called.                                               *)
AxisSetDividesByZero(value) ==
    /\ DeadzoneDivides(value, ax.dz)
    /\ ax_call' = [n |-> 0, value |-> value, dz |-> ax.dz,
                   curve |-> ax.curve, stored |-> ax.value, raw |-> 0,
                   ok |-> FALSE, err |-> "ZeroDivisionError"]
    /\ UNCHANGED ax
    /\ UNCHANGED notAxis

(***************************************************************************)
(* The controls of one acquired device: Axis.value, Button.is_pressed and  *)
(* Hat.direction, read and written by the foreground thread.               *)
(***************************************************************************)
(* The instance whose controls are accessed, and the buttons and           *)
(* continuous hats the driver reports for its slot (lines 440, 473).       *)
Dev == 1
DrvButtons == {1}
DrvContPovs == {1}

(* Hat.to_continuous_direction, lines 211-221: the directions written here *)
(* are centre, north and north-east; (2, 0) is not a direction.            *)
HatDirs == {<<0, 0>>, <<0, 1>>, <<1, 1>>}
BadHatDir == <<2, 0>>

NoAccess == [kind |-> "none", write |-> FALSE, raised |-> FALSE, at |-> 0,
             seq |-> 0]

(* The driver write calls one access made: how many, and what the last    *)
(* one returned.                                                           *)
NoDrvWrite == [calls |-> 0, ok |-> TRUE]

DrvWrite(calls, ok) == [calls |-> calls, ok |-> ok]

Accessed(kind, write, raised) ==
    [kind |-> kind, write |-> write, raised |-> raised, at |-> now,
     seq |-> 1 - access.seq]

(* The state after VJoy(1) was constructed at time 0 on a slot with the    *)
(* axes X and SL0, one button and one continuous hat.                      *)
InitControls ==
    /\ now = 0
    /\ vJoyEnabled = TRUE /\ vJoyVersion = RequiredVersion
    /\ VJDStatus = [s \in Slots |-> "Own"]
    /\ st = [d \in Insts |-> IF d = Dev THEN "live" ELSE "new"]
    /\ req = [d \in Insts |-> IF d = Dev THEN 1 ELSE None]
    /\ vjoy_id = [d \in Insts |-> IF d = Dev THEN 1 ELSE None]
    /\ axis = [d \in Insts |->
                 IF d = Dev THEN [a \in DrvAxes(1) |-> 0] ELSE <<>>]
    /\ ctl_vjoy_id = [d \in Insts |-> IF d = Dev THEN 1 ELSE None]
    /\ last_active = [d \in Insts |-> 0]
    /\ keep_alive_timer = [d \in Insts |->
           IF d = Dev
           THEN [state |-> "waiting", deadline |-> KeepAlivePeriod]
           ELSE NoTimer]
    /\ ka = [d \in Insts |-> KaIdle]
    /\ fg = FgIdle
    /\ fgResult = "ok"
    /\ acquire_calls = [d \in Insts |-> IF d = Dev THEN 1 ELSE 0]
    /\ relinquish_calls = [d \in Insts |-> 0]
    /\ inv_calls = [d \in Insts |-> 0]
    /\ inv_returned = [d \in Insts |-> 0]
    /\ last_write = [d \in Insts |-> 0]
    /\ ka_after_release = [d \in Insts |-> FALSE]
    /\ fresh = [d \in Insts |-> {}]
    /\ button = [b \in DrvButtons |-> FALSE]
    /\ hat = [h \in DrvContPovs |-> <<0, 0>>]
    /\ access = NoAccess
    /\ drv_write = NoDrvWrite

(* VJoy.used, lines 406-408.                                               *)
used(d) == [last_active EXCEPT ![d] = now]

lifeVars == <<drvCfg, VJDStatus, st, req, vjoy_id, ctl_vjoy_id,
              keep_alive_timer, ka, fg, acquire_calls, relinquish_calls,
              invHist, ka_after_release>>

(* Axis.value getter, lines 124-125.                                       *)
AxisGet(a) ==
    /\ fg.op = "idle" /\ is_axis_valid(Dev, a)
    /\ last_active' = used(Dev)
    /\ access' = Accessed("axis", FALSE, FALSE)
    /\ drv_write' = NoDrvWrite
    /\ fgResult' = "ok"
    /\ UNCHANGED <<now, lifeVars, axis, last_write, button, hat>>
    /\ UNCHANGED fresh
    /\ UNCHANGED notControls

(* AxisPut calling SetAxis a second time after a refused write.           *)
AxisPutRetry(a, value, ok) ==
    /\ fg.op = "idle" /\ is_axis_valid(Dev, a)
    /\ axis' = [axis EXCEPT ![Dev][a] = AxisStore(value)]
    /\ last_active' = IF ok THEN used(Dev) ELSE last_active
    /\ last_write' = IF ok THEN [last_write EXCEPT ![Dev] = now] ELSE last_write
    /\ access' = Accessed("axis", TRUE, ~ok)
    /\ drv_write' = DrvWrite(IF ok THEN 1 ELSE 2, ok)
    /\ fgResult' = IF ok THEN "ok" ELSE "write_failed"
    /\ UNCHANGED <<now, lifeVars, button, hat>>
    /\ fresh' = IF ok THEN FreshAfterWrite(Dev, a) ELSE fresh
    /\ UNCHANGED notControls

(* Axis.value setter, lines 143-153; ok is what SetAxis returns.           *)
AxisPut(a, value, ok) ==
    /\ fg.op = "idle" /\ is_axis_valid(Dev, a)
    /\ axis' = [axis EXCEPT ![Dev][a] = AxisStore(value)]
    /\ last_active' = IF ok THEN used(Dev) ELSE last_active
    /\ last_write' = IF ok THEN [last_write EXCEPT ![Dev] = now] ELSE last_write
    /\ access' = Accessed("axis", TRUE, ~ok)
    /\ drv_write' = DrvWrite(1, ok)
    /\ fgResult' = IF ok THEN "ok" ELSE "write_failed"
    /\ UNCHANGED <<now, lifeVars, button, hat>>
    /\ fresh' = IF ok THEN FreshAfterWrite(Dev, a) ELSE fresh
    /\ UNCHANGED notControls

(* ButtonGet without the call of used().                                   *)
ButtonGetNoUse(b) ==
    /\ fg.op = "idle" /\ b \in DOMAIN button
    /\ access' = Accessed("button", FALSE, FALSE)
    /\ drv_write' = NoDrvWrite
    /\ fgResult' = "ok"
    /\ UNCHANGED <<now, lifeVars, axis, last_active, last_write, button, hat>>
    /\ UNCHANGED fresh
    /\ UNCHANGED notControls

(* Button.is_pressed getter, lines 177-178.                                *)
ButtonGet(b) ==
    /\ fg.op = "idle" /\ b \in DOMAIN button
    /\ last_active' = used(Dev)
    /\ access' = Accessed("button", FALSE, FALSE)
    /\ drv_write' = NoDrvWrite
    /\ fgResult' = "ok"
    /\ UNCHANGED <<now, lifeVars, axis, last_write, button, hat>>
    /\ UNCHANGED fresh
    /\ UNCHANGED notControls

(* Button.is_pressed setter, lines 186-194; ok is what SetBtn returns.     *)
ButtonPut(b, pressed, ok) ==
    /\ fg.op = "idle" /\ b \in DOMAIN button
    /\ button' = [button EXCEPT ![b] = pressed]
    /\ last_active' = IF ok THEN used(Dev) ELSE last_active
    /\ last_write' = IF ok THEN [last_write EXCEPT ![Dev] = now] ELSE last_write
    /\ access' = Accessed("button", TRUE, ~ok)
    /\ drv_write' = DrvWrite(1, ok)
    /\ fgResult' = IF ok THEN "ok" ELSE "write_failed"
    /\ UNCHANGED <<now, lifeVars, axis, hat>>
    /\ UNCHANGED fresh
    /\ UNCHANGED notControls

(* Hat.direction getter, lines 241-242.                                    *)
HatGet(h) ==
    /\ fg.op = "idle" /\ h \in DOMAIN hat
    /\ last_active' = used(Dev)
    /\ access' = Accessed("hat", FALSE, FALSE)
    /\ drv_write' = NoDrvWrite
    /\ fgResult' = "ok"
    /\ UNCHANGED <<now, lifeVars, axis, last_write, button, hat>>
    /\ UNCHANGED fresh
    /\ UNCHANGED notControls

(* Hat.direction setter of a continuous hat, lines 250-256 and 281-292,    *)
(* for a known direction; ok is what SetContPov returns.                   *)
HatPut(h, direction, ok) ==
    /\ fg.op = "idle" /\ h \in DOMAIN hat
    /\ direction \in HatDirs
    /\ hat' = [hat EXCEPT ![h] = direction]
    /\ last_active' = IF ok THEN used(Dev) ELSE last_active
    /\ last_write' = IF ok THEN [last_write EXCEPT ![Dev] = now] ELSE last_write
    /\ access' = Accessed("hat", TRUE, ~ok)
    /\ drv_write' = DrvWrite(1, ok)
    /\ fgResult' = IF ok THEN "ok" ELSE "write_failed"
    /\ UNCHANGED <<now, lifeVars, axis, button>>
    /\ UNCHANGED fresh
    /\ UNCHANGED notControls

(* lines 281-284: a direction that is not in the table raises VJoyError    *)
(* before anything is stored.                                              *)
HatPutInvalid(h, direction) ==
    /\ fg.op = "idle" /\ h \in DOMAIN hat
    /\ direction \notin HatDirs
    /\ access' = Accessed("hat", TRUE, TRUE)
    /\ drv_write' = NoDrvWrite
    /\ fgResult' = "invalid_direction"
    /\ UNCHANGED <<now, lifeVars, axis, last_active, last_write, button, hat>>
    /\ UNCHANGED fresh
    /\ UNCHANGED notControls

(***************************************************************************)
(* vjoy.deadzone called on its own.                                        *)
(***************************************************************************)
(* Limits with -1 <= low < low_center <= 0 <= high_center < high <= 1, and *)
(* the values the function is called with (some outside [-1, 1]).          *)
DzLows == {<<-One, 0>>, <<-One, -5000>>, <<-5000, 0>>, <<-7500, -2500>>}
DzHighs == {<<0, One>>, <<5000, One>>, <<0, 5000>>, <<2500, 7500>>}
DzValues == {-15000, -One, -7500, -5000, -2500, 0, 2500, 5000, 7500, One,
             15000}

InitDeadzone ==
    /\ dz_limits \in {<<l[1], l[2], h[1], h[2]>> : l \in DzLows, h \in DzHighs}
    /\ dz_calls = <<>>

(* The last two entries of a sequence of calls.                            *)
LastTwo(calls) ==
    IF Len(calls) <= 2 THEN calls ELSE SubSeq(calls, Len(calls) - 1, Len(calls))

(* deadzone(value, low, low_center, high_center, high) is called.          *)
DeadzoneCall(value) ==
    /\ dz_calls' = LastTwo(Append(dz_calls,
           [value |-> value,
            out |-> deadzone(value, dz_limits[1], dz_limits[2],
                             dz_limits[3], dz_limits[4])]))
    /\ UNCHANGED dz_limits
    /\ UNCHANGED notDeadzone

(***************************************************************************)
(* gremlin.util: axis_calibration, slider_calibration and                  *)
(* create_calibration_function.  Raw values are integers; a calibrated     *)
(* value is the fraction <<numerator, denominator>> the code divides out.  *)
(***************************************************************************)
(* The raw limits a calibration is created from and the raw values it is   *)
(* called with.                                                            *)
CalPoints == {0, 40, 100}
CalValues == {-20, 0, 20, 40, 70, 100, 120}

NoFn == [kind |-> "none", minimum |-> 0, center |-> 0, maximum |-> 0]

InitCalib ==
    /\ cal_args \in CalPoints \X CalPoints \X CalPoints
    /\ cal_fn = NoFn
    /\ cal_calls = <<>>

(* clamp, lines 363-365.                                                   *)
clamp(value, min_val, max_val) ==
    LET lo == IF min_val > max_val THEN max_val ELSE min_val
        hi == IF min_val > max_val THEN min_val ELSE max_val
    IN  Min({hi, Max({lo, value})})

(* axis_calibration with the slope of the upper half on both sides.        *)
AxisCalibrationOneSlope(value, minimum, center, maximum) ==
    <<clamp(value, minimum, maximum) - center, maximum - center>>

(* axis_calibration, lines 271-275.                                        *)
axis_calibration(value, minimum, center, maximum) ==
    LET v == clamp(value, minimum, maximum)
    IN  IF v < center
        THEN <<v - center, center - minimum>>
        ELSE <<v - center, maximum - center>>

(* slider_calibration without the clamp of line 287.                       *)
SliderCalibrationNoClamp(value, minimum, maximum) ==
    <<2 * (value - minimum) - (maximum - minimum), maximum - minimum>>

(* slider_calibration, lines 287-288:                                      *)
(* (value - minimum) / (maximum - minimum) * 2 - 1 as one fraction.        *)
slider_calibration(value, minimum, maximum) ==
    LET v == clamp(value, minimum, maximum)
    IN  <<2 * (v - minimum) - (maximum - minimum), maximum - minimum>>

(* UsesSlider looking at the minimum only.                                 *)
UsesSliderMinOnly(minimum, center, maximum) == minimum = center

(* line 300: minimum == center or maximum == center                        *)
UsesSlider(minimum, center, maximum) == minimum = center \/ maximum = center

(* create_calibration_function, lines 300-303: the lambda returned, with   *)
(* the arguments it closes over.                                           *)
create_calibration_function(minimum, center, maximum) ==
    [kind |-> IF UsesSlider(minimum, center, maximum) THEN "slider" ELSE "axis",
     minimum |-> minimum, center |-> center, maximum |-> maximum]

(* The lambda of line 301 or of line 303 called with x.                    *)
CalApply(fn, x) ==
    IF fn.kind = "slider"
    THEN slider_calibration(x, fn.minimum, fn.maximum)
    ELSE axis_calibration(x, fn.minimum, fn.center, fn.maximum)

CreateCalibration ==
    /\ cal_fn = NoFn
    /\ cal_fn' = create_calibration_function(cal_args[1], cal_args[2],
                                              cal_args[3])
    /\ UNCHANGED <<cal_args, cal_calls>>
    /\ UNCHANGED notCalib

(* The returned function is called with a raw value.                       *)
Calibrate(value) ==
    /\ cal_fn # NoFn
    /\ CalApply(cal_fn, value)[2] # 0
    /\ cal_calls' = LastTwo(Append(cal_calls,
           [value |-> value, out |-> CalApply(cal_fn, value),
            err |-> "none"]))
    /\ UNCHANGED <<cal_args, cal_fn>>
    /\ UNCHANGED notCalib

(* The returned function divides by zero: ZeroDivisionError.               *)
CalibrateDividesByZero(value) ==
    /\ cal_fn # NoFn
    /\ CalApply(cal_fn, value)[2] = 0
    /\ cal_calls' = LastTwo(Append(cal_calls,
           [value |-> value, out |-> <<0, 0>>, err |-> "ZeroDivisionError"]))
    /\ UNCHANGED <<cal_args, cal_fn>>
    /\ UNCHANGED notCalib

(***************************************************************************)
(* gremlin.config.Configuration: set_calibration and get_calibration.      *)
(***************************************************************************)
(* The identifiers set_calibration and get_calibration derive from dev_id  *)
(* (lines 94-95, 116-117), and the axis ids of a device, counted from 0.   *)
CfgDevs == {1, 2}
CfgAxes == {0, 1}

(* The [minimum, center, maximum] triples a caller supplies for an axis.   *)
CfgLimits ==
    {<<0, 40, 100>>, <<0, 0, 100>>, <<40, 40, 40>>, <<40, 0, 40>>,
     <<100, 40, 0>>}

(* The lists of limits a caller supplies, one entry per axis.              *)
CfgLimitLists ==
    {<<>>} \cup {<<a>> : a \in CfgLimits}
           \cup {<<a, b>> : a \in CfgLimits, b \in CfgLimits}

(* lines 120, 122                                                          *)
DefaultCalibration == <<-32768, 0, 32767>>

(* identifier not in self._data["calibration"]; axis_name not in the dict  *)
NoEntry == <<"no entry">>
NoLimit == <<>>

NoCfgCall == [dev |-> 0, limits |-> <<>>]

(* The state after __init__ with no calibration saved (lines 62-66).       *)
InitConfig ==
    /\ calibration = [dev \in CfgDevs |-> NoEntry]
    /\ cfg_call = NoCfgCall

(* The loop of set_calibration storing every axis.                         *)
StoredLimitsNoSkip(limits) ==
    [a \in CfgAxes |-> IF a + 1 <= Len(limits) THEN limits[a + 1] ELSE NoLimit]

(* lines 100-106: the dictionary the loop fills, axis_<i> for the i-th     *)
(* entry of limits, skipping entries with limit[2] - limit[0] == 0.        *)
StoredLimits(limits) ==
    [a \in CfgAxes |->
        IF a + 1 <= Len(limits) /\ limits[a + 1][3] - limits[a + 1][1] # 0
        THEN limits[a + 1]
        ELSE NoLimit]

(* Configuration.set_calibration, lines 94-107.                            *)
set_calibration(dev, limits) ==
    /\ calibration' = [calibration EXCEPT ![dev] = StoredLimits(limits)]
    /\ cfg_call' = [dev |-> dev, limits |-> limits]
    /\ UNCHANGED notConfig

(* Configuration.get_calibration, lines 116-124.                           *)
get_calibration(dev, axis_id) ==
    IF calibration[dev] = NoEntry THEN DefaultCalibration
    ELSE IF calibration[dev][axis_id] = NoLimit THEN DefaultCalibration
    ELSE calibration[dev][axis_id]

(***************************************************************************)
(* gremlin.util: setup_duplicate_joysticks, device_id, get_device_id and   *)
(* extract_ids.  A Python int n is <<"int", n>>, a tuple (a, b) is         *)
(* <<"tuple", a, b>>.                                                      *)
(***************************************************************************)
PyInt(n) == <<"int", n>>
PyPair(a, b) == <<"tuple", a, b>>
PyTypeError == <<"TypeError">>

(* The devices joystick_devices may return: hardware and windows id.       *)
IdDevs == [hardware_id : {1, 2}, windows_id : {0, 1}]

NoId == [src |-> "none", hardware_id |-> 0, windows_id |-> 0,
         id |-> <<"none">>, flag |-> FALSE, bound |-> "None"]
NoOut == [out |-> <<>>, flag |-> FALSE]

(* lines 35, 41: the module globals after import.                          *)
InitIds ==
    /\ g_duplicate_devices = FALSE
    /\ device_id = "None"
    /\ id_devices = <<>>
    /\ id_setup = "none"
    /\ id_held = NoId
    /\ id_out = NoOut

(* HasDuplicates holding as soon as two devices are connected.             *)
HasSeveral(devs) == Len(devs) > 1

(* lines 474-475: len(entries) != len(set(entries))                        *)
HasDuplicates(devs) ==
    Len(devs) # Cardinality({devs[k].hardware_id : k \in 1..Len(devs)})

(* setup_duplicate_joysticks, lines 469-481, joystick_devices returning    *)
(* devs.                                                                   *)
SetupDuplicateJoysticks(devs) ==
    /\ id_devices' = devs
    /\ g_duplicate_devices' = HasDuplicates(devs)
    /\ device_id' = IF HasDuplicates(devs) THEN "device_id_duplicates"
                    ELSE "device_id_unique"
    /\ id_setup' = "ok"
    /\ UNCHANGED <<id_held, id_out>>
    /\ UNCHANGED notIds

(* setup_duplicate_joysticks when joystick_devices (line 471) raises       *)
(* GremlinError: the globals keep their values.                            *)
SetupRaises ==
    /\ id_setup' = "raised"
    /\ UNCHANGED <<g_duplicate_devices, device_id, id_devices, id_held, id_out>>
    /\ UNCHANGED notIds

(* device_id_duplicates (line 450) and device_id_unique (line 462).        *)
device_id_duplicates(dev) == PyPair(dev.hardware_id, dev.windows_id)
device_id_unique(dev) == PyInt(dev.hardware_id)

(* A call of gremlin.util.device_id(dev): the function the name is bound   *)
(* to, or TypeError while the name is still None.                          *)
DeviceIdCall(dev) ==
    /\ id_held' = [src |-> "device_id",
                   hardware_id |-> dev.hardware_id,
                   windows_id |-> dev.windows_id,
                   id |-> IF device_id = "device_id_duplicates"
                          THEN device_id_duplicates(dev)
                          ELSE IF device_id = "device_id_unique"
                               THEN device_id_unique(dev)
                               ELSE PyTypeError,
                   flag |-> g_duplicate_devices, bound |-> device_id]
    /\ id_out' = NoOut
    /\ UNCHANGED <<g_duplicate_devices, device_id, id_devices, id_setup>>
    /\ UNCHANGED notIds

(* get_device_id, lines 507-510.                                           *)
get_device_id(hardware_id, windows_id) ==
    IF g_duplicate_devices THEN PyPair(hardware_id, windows_id)
    ELSE PyInt(hardware_id)

GetDeviceId(hardware_id, windows_id) ==
    /\ id_held' = [src |-> "get_device_id",
                   hardware_id |-> hardware_id, windows_id |-> windows_id,
                   id |-> get_device_id(hardware_id, windows_id),
                   flag |-> g_duplicate_devices, bound |-> device_id]
    /\ id_out' = NoOut
    /\ UNCHANGED <<g_duplicate_devices, device_id, id_devices, id_setup>>
    /\ UNCHANGED notIds

(* extract_ids, lines 494-497; an int cannot be subscripted.               *)
extract_ids(dev_id) ==
    IF g_duplicate_devices
    THEN IF dev_id[1] = "tuple"
         THEN <<PyInt(dev_id[2]), PyInt(dev_id[3])>>
         ELSE <<PyTypeError>>
    ELSE <<dev_id, PyInt(-1)>>

ExtractIds ==
    /\ id_held.src # "none" /\ id_held.id # PyTypeError
    /\ id_out' = [out |-> extract_ids(id_held.id), flag |-> g_duplicate_devices]
    /\ UNCHANGED <<g_duplicate_devices, device_id, id_devices, id_setup, id_held>>
    /\ UNCHANGED notIds

(***************************************************************************)
(* vjoy.VJoy: the axis table _init_axes builds, axis_count and             *)
(* is_axis_valid.  A key of the dictionary is an AxisName member,          *)
(* <<"AxisName", value>>, or a Python int, <<"int", n>>.                   *)
(***************************************************************************)
(* The positions of the AxisName enumeration, lines 34-41: X is 1 and has  *)
(* the value 0x30, SL1 is 8 and has the value 0x37.                        *)
AxisPositions == 1..8
AxisNameValue(i) == 47 + i

NameKey(i) == <<"AxisName", AxisNameValue(i)>>
IntKey(n) == <<"int", n>>

(* The integers is_axis_valid is asked about.                              *)
AxisQueries == 0..9 \cup {AxisNameValue(1)}

NoDict == [built |-> FALSE, table |-> <<>>]
NoQuery == [index |-> 0, result |-> FALSE, asked |-> FALSE]

InitAxes ==
    /\ axis_exist \in SUBSET AxisPositions
    /\ axes_dict = NoDict
    /\ axis_query = NoQuery

(* _init_axes registering each axis under its AxisName only.               *)
InitAxesNamesOnly(exist) ==
    [k \in {NameKey(i) : i \in exist} |-> k[2]]

(* _init_axes, lines 450-455: axes[axis] = Axis(self, axis.value) and      *)
(* axes[i+1] = axes[axis] for every axis that exists.                      *)
init_axes(exist) ==
    [k \in {NameKey(i) : i \in exist} \cup {IntKey(i) : i \in exist} |->
        IF k[1] = "AxisName" THEN k[2] ELSE AxisNameValue(k[2])]

(* VJoy.__init__, line 318, on a slot whose axes all have minimum 0.       *)
BuildAxes ==
    /\ ~axes_dict.built
    /\ axes_dict' = [built |-> TRUE, table |-> init_axes(axis_exist)]
    /\ UNCHANGED <<axis_exist, axis_query>>
    /\ UNCHANGED notAxes

(* VJoy.axis_count, line 332.                                              *)
axis_count == Cardinality(DOMAIN axes_dict.table)

(* VJoy.is_axis_valid(index) for an int, line 378.                         *)
IsAxisValid(index) ==
    /\ axes_dict.built
    /\ axis_query' = [index |-> index,
                      result |-> (IntKey(index) \in DOMAIN axes_dict.table),
                      asked |-> TRUE]
    /\ UNCHANGED <<axis_exist, axes_dict>>
    /\ UNCHANGED notAxes

(***************************************************************************)
(* Specifications.                                                         *)
(***************************************************************************)
(* No calibration is stored.                                               *)
ConfigOff ==
    /\ calibration = [dev \in CfgDevs |-> NoEntry]
    /\ cfg_call = NoCfgCall

(* The device id functions are not in use.                                 *)
IdsOff ==
    /\ g_duplicate_devices = FALSE
    /\ device_id = "None"
    /\ id_devices = <<>>
    /\ id_setup = "none"
    /\ id_held = NoId
    /\ id_out = NoOut

(* No axis table is built.                                                 *)
AxesOff ==
    /\ axis_exist = {}
    /\ axes_dict = NoDict
    /\ axis_query = NoQuery

(* No calibration function is created.                                     *)
CalibOff ==
    /\ cal_args = <<0, 40, 100>>
    /\ cal_fn = NoFn
    /\ cal_calls = <<>>

(* deadzone is not called on its own.                                      *)
DeadzoneOff ==
    /\ dz_limits = DefaultDeadzone
    /\ dz_calls = <<>>

(* The device has no buttons and no hats, and no access is recorded.       *)
ControlsOff ==
    /\ button = <<>>
    /\ hat = <<>>
    /\ access = NoAccess
    /\ drv_write = NoDrvWrite

(* No separate Axis is in use.                                             *)
AxisOff ==
    /\ ax = AxisInit(32767)
    /\ ax_call = NoCall

(* No AxisButton is in use.                                                *)
ButtonOff ==
    /\ ab_limits = <<40, 40>>
    /\ ab = [k \in Detectors |-> AxisButtonInit(40, 40)]
    /\ ab_events = [k \in Detectors |-> <<>>]
    /\ ab_samples = <<>>

(* joystick_devices is not running.                                        *)
MatchOff ==
    /\ sdl_devices = <<>>
    /\ slot_cfg = [s \in ProbeSlots |-> Closed]
    /\ devices = <<>>
    /\ vjoy_lookup = <<>>
    /\ jd = JdIdle
    /\ proxy_devices = {}
    /\ assigned = <<>>

(* No VJoy object is in use.                                               *)
VJoyOff ==
    /\ InitVJoy
    /\ vJoyEnabled
    /\ vJoyVersion = RequiredVersion
    /\ VJDStatus = [s \in Slots |-> "Free"]

Init ==
    InitVJoy /\ MatchOff /\ ButtonOff /\ AxisOff
    /\ ControlsOff /\ DeadzoneOff /\ CalibOff
    /\ ConfigOff
    /\ IdsOff
    /\ AxesOff

Next ==
    \/ \E d \in Insts, s \in Slots :
          CtorFail(d, s) \/ CtorRefused(d, s) \/ CtorAcquire(d, s)
    \/ FgResetVJD \/ FgResetAxis \/ FgResetAxisFails
    \/ \E d \in Insts : InvalidateReleased(d) \/ InvalidateBegin(d)
    \/ InvalidateRelinquish \/ InvalidateClear \/ InvalidateCancel
    \/ \E d \in Insts, a \in 1..8, v \in WriteVals :
          WriteAxis(d, a, v) \/ WriteAxisFails(d, a, v)
    \/ \E d \in Insts, a \in 1..8 : ReadAxis(d, a)
    \/ \E d \in Insts :
          \/ TimerFires(d) \/ KeepAliveCheck(d)
          \/ KeepAliveResetVJD(d) \/ KeepAliveResetAxis(d)
          \/ KeepAliveResetAxisFails(d)
          \/ KeepAliveArm(d) \/ KeepAliveStart(d)
    \/ AdvanceTime

Spec == Init /\ [][Next]_vars

InitJd ==
    VJoyOff /\ InitMatch /\ ButtonOff /\ AxisOff
    /\ ControlsOff /\ DeadzoneOff /\ CalibOff
    /\ ConfigOff
    /\ IdsOff
    /\ AxesOff

NextJd ==
    \/ Enumerate
    \/ BuildLookup \/ LookupRaises
    \/ ProbeClosed \/ ProbeMatch \/ ProbeUnmatched
    \/ ProxyReset

SpecMatch == InitJd /\ [][NextJd]_vars

InitAb ==
    VJoyOff /\ MatchOff /\ InitButton /\ AxisOff
    /\ ControlsOff /\ DeadzoneOff /\ CalibOff
    /\ ConfigOff
    /\ IdsOff
    /\ AxesOff

NextAb == \E value \in Samples, callback \in Callbacks : Process(value, callback)

SpecButton == InitAb /\ [][NextAb]_vars

InitAx ==
    VJoyOff /\ MatchOff /\ ButtonOff /\ InitAxis
    /\ ControlsOff /\ DeadzoneOff /\ CalibOff
    /\ ConfigOff
    /\ IdsOff
    /\ AxesOff

NextAx ==
    \/ \E dz \in Deadzones : SetDeadzone(dz)
    \/ \E curve \in Curves : SetResponseCurve(curve)
    \/ \E value \in RawVals, ok \in BOOLEAN : AxisSet(value, ok)
    \/ \E value \in RawVals : AxisSetDividesByZero(value)

SpecAxis == InitAx /\ [][NextAx]_vars

InitCtl ==
    InitControls /\ MatchOff /\ ButtonOff /\ AxisOff
    /\ DeadzoneOff /\ CalibOff
    /\ ConfigOff
    /\ IdsOff
    /\ AxesOff

NextCtl ==
    \/ \E a \in 1..8 : AxisGet(a)
    \/ \E a \in 1..8, value \in WriteVals, ok \in BOOLEAN : AxisPut(a, value, ok)
    \/ \E b \in DrvButtons : ButtonGet(b)
    \/ \E b \in DrvButtons, pressed \in BOOLEAN, ok \in BOOLEAN :
          ButtonPut(b, pressed, ok)
    \/ \E h \in DrvContPovs : HatGet(h)
    \/ \E h \in DrvContPovs, direction \in HatDirs, ok \in BOOLEAN :
          HatPut(h, direction, ok)
    \/ \E h \in DrvContPovs : HatPutInvalid(h, BadHatDir)
    \/ \E d \in Insts :
          \/ TimerFires(d) \/ KeepAliveCheck(d)
          \/ KeepAliveResetVJD(d) \/ KeepAliveResetAxis(d)
          \/ KeepAliveResetAxisFails(d)
          \/ KeepAliveArm(d) \/ KeepAliveStart(d)
    \/ AdvanceTime

SpecControls == InitCtl /\ [][NextCtl]_vars

InitDz ==
    /\ VJoyOff /\ MatchOff /\ ButtonOff /\ AxisOff /\ ControlsOff
    /\ InitDeadzone /\ CalibOff
    /\ ConfigOff
    /\ IdsOff
    /\ AxesOff

NextDz == \E value \in DzValues : DeadzoneCall(value)

SpecDeadzone == InitDz /\ [][NextDz]_vars

InitCal ==
    /\ VJoyOff /\ MatchOff /\ ButtonOff /\ AxisOff /\ ControlsOff
    /\ DeadzoneOff /\ InitCalib
    /\ ConfigOff
    /\ IdsOff
    /\ AxesOff

NextCal ==
    \/ CreateCalibration
    \/ \E value \in CalValues : Calibrate(value)
    \/ \E value \in CalValues : CalibrateDividesByZero(value)

SpecCalib == InitCal /\ [][NextCal]_vars

InitCfg ==
    /\ VJoyOff /\ MatchOff /\ ButtonOff /\ AxisOff /\ ControlsOff
    /\ DeadzoneOff /\ CalibOff
    /\ InitConfig
    /\ IdsOff
    /\ AxesOff

NextCfg ==
    \E dev \in CfgDevs, limits \in CfgLimitLists : set_calibration(dev, limits)

SpecConfig == InitCfg /\ [][NextCfg]_vars

InitId ==
    /\ VJoyOff /\ MatchOff /\ ButtonOff /\ AxisOff /\ ControlsOff
    /\ DeadzoneOff /\ CalibOff /\ ConfigOff
    /\ InitIds
    /\ AxesOff

NextId ==
    \/ \E devs \in SeqsUpTo(IdDevs, MaxDev) : SetupDuplicateJoysticks(devs)
    \/ SetupRaises
    \/ \E dev \in IdDevs : DeviceIdCall(dev)
    \/ \E dev \in IdDevs : GetDeviceId(dev.hardware_id, dev.windows_id)
    \/ ExtractIds

SpecIds == InitId /\ [][NextId]_vars

InitAd ==
    /\ VJoyOff /\ MatchOff /\ ButtonOff /\ AxisOff /\ ControlsOff
    /\ DeadzoneOff /\ CalibOff /\ ConfigOff /\ IdsOff
    /\ InitAxes

NextAd ==
    \/ BuildAxes
    \/ \E index \in AxisQueries : IsAxisValid(index)

SpecAxes == InitAd /\ [][NextAd]_vars

(***************************************************************************)
(* Properties of the VJoy device (specification Spec).                     *)
(***************************************************************************)
InInvalidate(d) == fg.op = "inval" /\ fg.d = d

KaRunning(d) == ka[d].pc \in {"check", "reset", "axes", "arm", "start"}

TimerArmed(d) == keep_alive_timer[d].state \in {"created", "waiting"}

(* C1: invalidate() is idempotent and Released is terminal: a second or    *)
(* later call of invalidate() on a device makes no driver call, and once   *)
(* invalidate() has been called the device is Released with RelinquishVJD  *)
(* called exactly once.                                                    *)
C1_InvalidateIdempotent ==
    \A d \in Insts :
       /\ (InInvalidate(d) /\ fg.n >= 2) => ~fg.drv
       /\ relinquish_calls[d] <= 1
       /\ (inv_calls[d] >= 1 /\ ~InInvalidate(d)) =>
             (vjoy_id[d] = None /\ relinquish_calls[d] = 1)

(* C2: once invalidate() has returned, no keep-alive timer of the device   *)
(* is pending or running.                                                  *)
C2_CancelSynchronous ==
    \A d \in Insts :
       inv_returned[d] >= 1 => (~KaRunning(d) /\ ~TimerArmed(d))

(* C3: after RelinquishVJD was called for a device, its keep-alive thread  *)
(* issues no further driver call (ResetVJD, SetAxis).                      *)
C3_NoWriteAfterRelease == \A d \in Insts : ~ka_after_release[d]

(* A keep-alive tick ends: its callback returns, or VJoyError ends it.     *)
TickReturns(d) == ka[d].pc = "start" /\ ka'[d].pc = "idle"
TickRaises(d) == KaRunning(d) /\ ka'[d].pc = "dead"

(* The tick did what line 428 asks of it: a reset write iff the timestamp  *)
(* it read is older than the period.                                       *)
TickDecided(d) == ka[d].wrote <=> (ka[d].seen + KeepAlivePeriod < now)

Rearmed(d) ==
    keep_alive_timer'[d] =
        [state |-> "waiting", deadline |-> now + KeepAlivePeriod]

C5_WriteEveryPeriod ==
    \A d \in Insts :
       (st[d] = "live" /\ vjoy_id[d] # None) =>
           now - last_write[d] <= KeepAlivePeriod

(* The constructor of instance d runs its checks in this step.             *)
Constructs(d) == st[d] = "new" /\ st'[d] # "new"

FailedClosed(d) ==
    /\ st'[d] = "failed"
    /\ vjoy_id'[d] = None
    /\ axis'[d] = <<>>
    /\ keep_alive_timer'[d] = NoTimer
    /\ ka'[d] = KaIdle
    /\ fg' = FgIdle

(* C6: the constructor fails closed.  Driver not running, wrong version,   *)
(* slot not Free: VJoyError (in that order of checks) without AcquireVJD   *)
(* being called; AcquireVJD refusing: VJoyError; in all four cases vjoy_id *)
(* stays unset, no control is created and no timer is started.             *)
C6_CtorFailsClosed ==
    [][\A d \in Insts : Constructs(d) =>
          LET s == req'[d]
              refused == VJDStatus[s] = "Free" /\ VJDStatus'[s] = "Free"
          IN  /\ ~vJoyEnabled =>
                    (FailedClosed(d) /\ fgResult' = "not_running"
                        /\ acquire_calls'[d] = 0)
              /\ (vJoyEnabled /\ vJoyVersion # RequiredVersion) =>
                    (FailedClosed(d) /\ fgResult' = "bad_version"
                        /\ acquire_calls'[d] = 0)
              /\ (vJoyEnabled /\ vJoyVersion = RequiredVersion
                    /\ VJDStatus[s] # "Free") =>
                    (FailedClosed(d) /\ fgResult' = "not_available"
                        /\ acquire_calls'[d] = 0 /\ VJDStatus' = VJDStatus)
              /\ (vJoyEnabled /\ vJoyVersion = RequiredVersion /\ refused) =>
                    (FailedClosed(d) /\ fgResult' = "acquire_failed"
                        /\ acquire_calls'[d] = 1)]_vars

(* A constructor was refused by AcquireVJD and left nothing behind.        *)
C6_Witness ==
    \E d \in Insts :
       /\ st[d] = "failed" /\ fgResult = "acquire_failed"
       /\ acquire_calls[d] = 1 /\ vjoy_id[d] = None
       /\ keep_alive_timer[d] = NoTimer

Holder(s) == {e \in Insts : vjoy_id[e] = s}

(* C7: no two VJoy instances hold the same slot, and constructing a VJoy   *)
(* for a slot another instance holds raises VJoyError and leaves the       *)
(* holder's state and controls unchanged.                                  *)
C7_ExclusiveSlot ==
    [][/\ \A s \in Slots : Cardinality(Holder(s)') <= 1
       /\ \A d \in Insts : \A e \in Insts \ {d} :
             (Constructs(d) /\ vjoy_id[e] = req'[d]) =>
                 /\ FailedClosed(d)
                 /\ fgResult' \in {"not_running", "bad_version", "not_available"}
                 /\ vjoy_id'[e] = vjoy_id[e] /\ axis'[e] = axis[e]
                 /\ st'[e] = st[e] /\ last_active'[e] = last_active[e]
                 /\ keep_alive_timer'[e] = keep_alive_timer[e]
                 /\ VJDStatus' = VJDStatus]_vars

(* One instance holds the slot; the construction of another for the same   *)
(* slot has raised.                                                        *)
C7_Witness ==
    \E d \in Insts : \E e \in Insts \ {d} :
       /\ st[e] = "live" /\ vjoy_id[e] # None
       /\ st[d] = "failed" /\ req[d] = vjoy_id[e]
       /\ fgResult = "not_available"

(***************************************************************************)
(* Properties of joystick_devices (specification SpecMatch).               *)
(***************************************************************************)
Descriptors == 1..Len(devices)

SameCounts(k, l) ==
    /\ devices[k].axes = devices[l].axes
    /\ devices[k].buttons = devices[l].buttons
    /\ devices[k].hats = devices[l].hats

(* Two virtual descriptors have the same (axes, buttons, hats).            *)
AmbiguousVirtual ==
    \E k, l \in Descriptors :
       k # l /\ devices[k].is_virtual /\ devices[l].is_virtual /\ SameCounts(k, l)

Finished == jd.pc \in {"done", "raised"}

Range(f) == {f[x] : x \in DOMAIN f}

(* The slot can be opened and reports twice the descriptor's axes, and its *)
(* buttons and hats.                                                       *)
SlotMatches(s, k) ==
    /\ slot_cfg[s].present
    /\ AxisCount(slot_cfg[s]) = 2 * devices[k].axes
    /\ slot_cfg[s].buttons = devices[k].buttons
    /\ slot_cfg[s].hats = devices[k].hats

(* The slot can be opened and matches no virtual descriptor.               *)
SlotUnmatched(s) ==
    /\ slot_cfg[s].present
    /\ \A k \in Descriptors : devices[k].is_virtual => ~SlotMatches(s, k)

(* C8: when two virtual descriptors share a signature, joystick_devices    *)
(* raises, probes no slot and assigns no descriptor a slot index.          *)
C8_AmbiguityAborts ==
    (AmbiguousVirtual /\ jd.pc \notin {"enumerate", "lookup"}) =>
        /\ jd.pc = "raised" /\ jd.err = "indistinguishable"
        /\ jd.i = 0
        /\ proxy_devices = {}
        /\ \A k \in Descriptors :
              devices[k].vjoy_id = 0 /\ assigned[k] = <<>>

(* Two indistinguishable vJoy devices were enumerated and the call raised. *)
C8_Witness ==
    /\ AmbiguousVirtual
    /\ jd.pc = "raised"
    /\ \E s \in ProbeSlots : slot_cfg[s].present

(* C9 (as stated): when joystick_devices has finished over descriptors     *)
(* with pairwise distinct virtual signatures, every openable slot          *)
(* reporting axis count 2a, b buttons and h hats was assigned to the       *)
(* virtual descriptor with signature (a, b, h).                            *)
C9_MatchingSlotsAssigned ==
    (Finished /\ ~AmbiguousVirtual) =>
        \A k \in Descriptors : \A s \in ProbeSlots :
           (devices[k].is_virtual /\ SlotMatches(s, k)) =>
               s \in Range(assigned[k])

(* C9 (amended): over descriptors with pairwise distinct virtual           *)
(* signatures, every openable slot reporting axis count 2a, b buttons and  *)
(* h hats that the pass reached (all of them when the list is returned,    *)
(* those before the slot that raised otherwise) was assigned to the        *)
(* virtual descriptor with signature (a, b, h), and the pass raises only   *)
(* at a slot that matches no virtual descriptor.                           *)
C9_ProbedSlotsAssigned ==
    (Finished /\ ~AmbiguousVirtual) =>
        /\ \A k \in Descriptors : \A s \in ProbeSlots :
              (/\ devices[k].is_virtual /\ SlotMatches(s, k)
               /\ (jd.pc = "done" \/ s < jd.i)) =>
                  s \in Range(assigned[k])
        /\ jd.pc = "raised" => (jd.i \in ProbeSlots /\ SlotUnmatched(jd.i))

(* The list was returned with the descriptor (4, 8, 1) bound to a slot     *)
(* whose device has axis count 8, 8 buttons and 1 hat.                     *)
C9_Witness ==
    /\ jd.pc = "done"
    /\ \E k \in Descriptors : \E s \in ProbeSlots :
          /\ devices[k].is_virtual /\ devices[k].axes = 4
          /\ SlotMatches(s, k) /\ AxisCount(slot_cfg[s]) = 8
          /\ devices[k].vjoy_id = s

(* C10 (as stated): an openable slot that matches no virtual descriptor    *)
(* surfaces an error but every remaining slot up to 16 is still probed,    *)
(* and later slots that match a descriptor are still assigned.             *)
C10_UnmatchedDoesNotAbort ==
    (Finished /\ ~AmbiguousVirtual) =>
        \A u \in ProbeSlots : SlotUnmatched(u) =>
           /\ jd.err = "unmatched"
           /\ jd.i = MaxSlot
           /\ \A k \in Descriptors : \A s \in ProbeSlots :
                 (s > u /\ devices[k].is_virtual /\ SlotMatches(s, k)) =>
                     devices[k].vjoy_id = s

FirstUnmatched(u) ==
    /\ SlotUnmatched(u)
    /\ \A t \in ProbeSlots : t < u => ~SlotUnmatched(t)

(* C10 (amended): the first openable slot that matches no virtual          *)
(* descriptor aborts the pass: joystick_devices raises GremlinError at     *)
(* that slot, no later slot is probed, and no later slot is assigned to a  *)
(* descriptor.                                                             *)
C10_UnmatchedAborts ==
    (Finished /\ ~AmbiguousVirtual) =>
        \A u \in ProbeSlots : FirstUnmatched(u) =>
           /\ jd.pc = "raised" /\ jd.err = "unmatched"
           /\ jd.i = u
           /\ \A s \in proxy_devices : s <= u
           /\ \A k \in Descriptors :
                 /\ devices[k].vjoy_id < u
                 /\ \A s \in Range(assigned[k]) : s < u

(* The pass raised at an unmatched slot although a later slot matches a    *)
(* virtual descriptor, which stays unbound.                                *)
C10_Witness ==
    /\ jd.pc = "raised"
    /\ \E u \in ProbeSlots : \E s \in ProbeSlots : \E k \in Descriptors :
          /\ FirstUnmatched(u) /\ s > u
          /\ devices[k].is_virtual /\ SlotMatches(s, k)
          /\ devices[k].vjoy_id = 0

(* C11: whenever joystick_devices has finished, by returning the list or   *)
(* by raising, every slot it opened while probing has been released: the   *)
(* proxy holds no device.                                                  *)
C11_ProbeThenRelease == Finished => proxy_devices = {}

(* The slot cannot be opened: vjoy_proxy[i] raises VJoyError.              *)
CannotOpen(i) == i \notin ProbeSlots \/ ~slot_cfg[i].present

(* C12: a slot of 1..16 that cannot be opened is skipped: nothing is       *)
(* raised for it, no descriptor is assigned from it, and the pass goes on  *)
(* with the next slot index (or, after slot 16, to the release).           *)
C12_ClosedSlotSkipped ==
    [][(jd.pc = "probe" /\ CannotOpen(jd.i)) =>
          /\ jd'.err = "none" /\ jd'.pc # "raised"
          /\ devices' = devices /\ assigned' = assigned
          /\ proxy_devices' = proxy_devices
          /\ IF jd.i < MaxSlot
             THEN jd'.pc = "probe" /\ jd'.i = jd.i + 1
             ELSE jd'.pc = "reset"]_vars

(* Slot 1 could not be opened and the pass went on to bind slot 2, and     *)
(* returned the list.                                                      *)
C12_Witness ==
    /\ jd.pc = "done"
    /\ CannotOpen(1) /\ ~CannotOpen(2)
    /\ \E k \in Descriptors : devices[k].vjoy_id = 2

(* C13: a descriptor's slot index starts unset (0) and is written at most  *)
(* once during a matching pass: no later slot overwrites it.               *)
C13_AssignedOnce ==
    \A k \in DOMAIN assigned :
       /\ Len(assigned[k]) <= 1
       /\ assigned[k] = <<>> => devices[k].vjoy_id = 0

(***************************************************************************)
(* Properties of AxisButton (specification SpecButton).                    *)
(***************************************************************************)
Lo == Min({ab_limits[1], ab_limits[2]})
Hi == Max({ab_limits[1], ab_limits[2]})

Inside(v) == Lo <= v /\ v <= Hi

(* The callback calls detector k makes in this step.                       *)
NewEvents(k) ==
    SubSeq(ab_events'[k], Len(ab_events[k]) + 1, Len(ab_events'[k]))

(* C14: for every call process(v, cb) the detector is pressed afterwards   *)
(* iff lo <= v <= hi; cb is called once with True when the detector was    *)
(* released and v is inside the window, once with False when it was        *)
(* pressed and v is outside, and not at all otherwise; the callback called *)
(* is the one of this call.                                                *)
C14_TransitionFunction ==
    [][ab_samples' # ab_samples =>
          LET call == ab_samples'[Len(ab_samples')]
              v == call.value
              cb == call.callback
          IN  \A k \in Detectors :
                 /\ is_pressed(ab'[k]) <=> Inside(v)
                 /\ (~is_pressed(ab[k]) /\ Inside(v)) =>
                        NewEvents(k) = <<[callback |-> cb, pressed |-> TRUE]>>
                 /\ (is_pressed(ab[k]) /\ ~Inside(v)) =>
                        NewEvents(k) = <<[callback |-> cb, pressed |-> FALSE]>>
                 /\ (is_pressed(ab[k]) <=> Inside(v)) => NewEvents(k) = <<>>]_vars

(* A press at the lower bound was reported to one callback and the         *)
(* release that followed to the other.                                     *)
C14_Witness ==
    /\ Len(ab_samples) >= 2
    /\ ab_samples[1].value = Lo /\ Lo < Hi
    /\ ab_events[1] = <<[callback |-> "cb1", pressed |-> TRUE],
                        [callback |-> "cb2", pressed |-> FALSE]>>

SampleValues == [i \in 1..Len(ab_samples) |-> ab_samples[i].value]

EventKinds(k) == [i \in 1..Len(ab_events[k]) |-> ab_events[k][i].pressed]

(* C15: the events of a detector alternate press, release, press, ...      *)
(* starting with a press; the samples 5, 50, 55, 70 against the window     *)
(* [40, 60] give press at 50 and release at 70, and nothing at 5 and 55.   *)
C15_EventsAlternate ==
    \A k \in Detectors :
       /\ \A i \in 1..Len(ab_events[k]) :
             ab_events[k][i].pressed <=> (i % 2 = 1)
       /\ (Lo = 40 /\ Hi = 60) =>
             /\ SampleValues = <<5>> => EventKinds(k) = <<>>
             /\ SampleValues = <<5, 50>> => EventKinds(k) = <<TRUE>>
             /\ SampleValues = <<5, 50, 55>> => EventKinds(k) = <<TRUE>>
             /\ SampleValues = <<5, 50, 55, 70>> =>
                   EventKinds(k) = <<TRUE, FALSE>>

(* The samples 5, 50, 55, 70 were processed against the window [40, 60].   *)
C15_Witness ==
    /\ Lo = 40 /\ Hi = 60
    /\ SampleValues = <<5, 50, 55, 70>>
    /\ EventKinds(1) = <<TRUE, FALSE>>

(* C16: the window of a detector is lower <= upper whatever the order of   *)
(* the limits given, and does not change; the detector is released before  *)
(* any sample; AxisButton(a, b) and AxisButton(b, a) are in the same state *)
(* and have made the same callback calls after every sample sequence.      *)
C16_Construction ==
    /\ \A k \in Detectors :
          /\ ab[k].lower_limit <= ab[k].upper_limit
          /\ ab[k].lower_limit = Lo /\ ab[k].upper_limit = Hi
          /\ ab_samples = <<>> => ~is_pressed(ab[k])
    /\ ab[1] = ab[2]
    /\ ab_events[1] = ab_events[2]

(* A detector built with its limits in reverse order has reported a press  *)
(* and a release.                                                          *)
C16_Witness ==
    /\ ab_limits = <<60, 40>>
    /\ Len(ab_events[1]) >= 2
    /\ ab[1].lower_limit = 40 /\ ab[1].upper_limit = 60

(***************************************************************************)
(* Properties of the Axis write path (specification SpecAxis).             *)
(***************************************************************************)
Written == ax_call.n > 0

(* C17: every write of a raw value v to an Axis with deadzone d and curve  *)
(* f stores f(d(clamp(v, -1, 1))), clamp, deadzone and curve applied once  *)
(* each in that order, and the integer sent to the driver is computed from *)
(* the stored value.                                                       *)
C17_PipelineOrder ==
    Written =>
        LET c == ax_call
            clamped == IF c.value > One THEN One
                       ELSE IF c.value < -One THEN -One ELSE c.value
            dead == deadzone(clamped, c.dz[1], c.dz[2], c.dz[3], c.dz[4])
        IN  /\ c.stored = response_curve(c.curve, dead)
            /\ ax.value = c.stored
            /\ c.raw = Trunc(ax.half_range * One + ax.half_range * c.stored, One)

(* 0.75 was written through the deadzone (-1, -0.5, 0.5, 1) and the curve  *)
(* x * |x|: 0.25 is stored (the curve first would give 0.125).             *)
C17_Witness ==
    /\ Written
    /\ ax_call.value = 7500 /\ ax_call.dz = <<-One, -5000, 5000, One>>
    /\ ax_call.curve = "quadratic"
    /\ ax.value = 2500

(* C18: for any installed response curve, also one that returns values of  *)
(* magnitude above 1, the value the setter stores is within [-1, 1] and    *)
(* the integer passed to SetAxis is within the axis bounds [min, max].     *)
C18_DefensiveClamp ==
    /\ -One <= ax.value /\ ax.value <= One
    /\ Written => (ax.min_value <= ax_call.raw /\ ax_call.raw <= ax.max_value)

(* C19: with the default deadzone and the identity curve, writing v stores *)
(* clamp(v, -1, 1) and sends trunc(half_range + half_range * value) with   *)
(* half_range = trunc(max / 2): -1 gives 0, 0 gives half_range, 1 gives    *)
(* 2 * half_range, and the integer sent is within [0, max].                *)
C19_DefaultMapping ==
    (Written /\ ax_call.dz = DefaultDeadzone /\ ax_call.curve = "identity") =>
        LET c == ax_call
            half == ax.max_value \div 2
            clamped == IF c.value > One THEN One
                       ELSE IF c.value < -One THEN -One ELSE c.value
        IN  /\ c.stored = clamped
            /\ c.raw = Trunc(half * One + half * c.stored, One)
            /\ c.stored = -One => c.raw = 0
            /\ c.stored = 0 => c.raw = half
            /\ c.stored = One => c.raw = 2 * half
            /\ 0 <= c.raw /\ c.raw <= ax.max_value

(* 1.5 was written to an axis with an odd maximum and its defaults: 1.0 is *)
(* stored and max - 1 is sent.                                             *)
C19_Witness ==
    /\ Written /\ ax_call.value = 15000
    /\ ax_call.dz = DefaultDeadzone /\ ax_call.curve = "identity"
    /\ ax.max_value = 32767
    /\ ax.value = One /\ ax_call.raw = 32766

(* C26: an axis deadzone with high == high_center or low == low_center is  *)
(* rejected by set_deadzone, so that no axis holds such a deadzone and no  *)
(* later axis write reaches a division by zero inside deadzone.            *)
C26_DegenerateRejected ==
    /\ ax.dz[4] # ax.dz[3] /\ ax.dz[1] # ax.dz[2]
    /\ ax_call.err # "ZeroDivisionError"

(***************************************************************************)
(* Properties of VJoy.reset (specification Spec).                          *)
(***************************************************************************)
(* reset() on device d returns in this step: to __init__ or invalidate on  *)
(* the foreground thread, or to _keep_alive on the timer thread.           *)
ResetReturns(d) ==
    \/ /\ fg.d = d /\ fg.pc \in {"reset", "axes"}
       /\ \/ fg'.pc = "relinquish"
          \/ fg.op = "ctor" /\ fg' = FgIdle /\ fgResult' = "ok"
    \/ ka[d].pc \in {"reset", "axes"} /\ ka'[d].pc = "arm"

(* C20: when reset() returns, every axis control that exists on the device *)
(* (X, Y, Z, RX, RY, RZ, SL0, SL1) reads 0.0, whatever was written before. *)
C20_ResetNeutralises ==
    [][\A d \in Insts :
          ResetReturns(d) => \A a \in DOMAIN axis'[d] : axis'[d][a] = 0]_vars

(***************************************************************************)
(* Properties of the control accesses (specification SpecControls).        *)
(***************************************************************************)
(* C21 (as stated): every read or write of a control of the device sets    *)
(* the device's last-used timestamp to the current time: after the access  *)
(* the timestamp is not older than the moment the access started.          *)
C21_EveryAccessStamps ==
    [][access' # access =>
          (last_active'[Dev] = now /\ last_active'[Dev] >= access'.at)]_vars

(* C21 (amended): every read of a control, and every write that the driver *)
(* accepts, sets the device's last-used timestamp to the current time; a   *)
(* write that raises VJoyError (the driver returns false, or the hat       *)
(* direction is unknown) leaves the timestamp as it was.                   *)
C21_CompletedAccessStamps ==
    [][access' # access =>
          IF access'.raised
          THEN access'.write /\ last_active' = last_active
          ELSE last_active'[Dev] = now /\ last_active'[Dev] >= access'.at]_vars

(* The hat was written at time 60 and the timestamp moved from 0 to 60.    *)
C21_Witness ==
    /\ access.kind = "hat" /\ access.write /\ ~access.raised
    /\ access.at = KeepAlivePeriod
    /\ last_active[Dev] = KeepAlivePeriod
    /\ hat[1] = <<1, 1>>

(***************************************************************************)
(* Properties of invalidate() and of the two threads (specification Spec). *)
(***************************************************************************)
(* C22: a first invalidate() on an acquired device stops the keep-alive    *)
(* timer, then performs the final reset, then releases the slot, then      *)
(* becomes Released: no timer of the device is armed once the final reset  *)
(* has made a driver call, when RelinquishVJD is called, or when vjoy_id   *)
(* is cleared.                                                             *)
C22_InvalidationOrder ==
    \A d \in Insts :
       /\ (InInvalidate(d) /\ fg.n = 1 /\ fg.drv) => ~TimerArmed(d)
       /\ (InInvalidate(d) /\ fg.n = 1 /\ fg.pc \in {"clear", "cancel"}) =>
              relinquish_calls[d] = 1
       /\ (InInvalidate(d) /\ fg.n = 1 /\ vjoy_id[d] = None) =>
              (relinquish_calls[d] = 1 /\ ~TimerArmed(d))

(* The thread running _keep_alive for device d takes a step.               *)
KaStep(d) == KaRunning(d) /\ ka'[d] # ka[d]

(* C23: the last-used timestamp is the only state of a device that both    *)
(* threads touch: a step of the keep-alive thread changes none of the      *)
(* control values, the timer handle and the slot id, which the foreground  *)
(* thread reads and writes.                                                *)
C23_OnlyTimestampShared ==
    [][\A d \in Insts :
          KaStep(d) =>
              /\ axis'[d] = axis[d]
              /\ keep_alive_timer'[d] = keep_alive_timer[d]
              /\ vjoy_id'[d] = vjoy_id[d]]_vars

(***************************************************************************)
(* Properties of deadzone (specification SpecDeadzone).                    *)
(***************************************************************************)
DzCalls == {dz_calls[i] : i \in 1..Len(dz_calls)}

InUnit(x) == -One <= x /\ x <= One

(* C24: for limits -1 <= low < low_center <= 0 <= high_center < high <= 1  *)
(* and v in [-1, 1], deadzone(v, ...) lies in [-1, 1]; it is exactly 0 at  *)
(* v = high_center and exactly 1 at v = high, exactly 0 at v = low_center  *)
(* when low_center < 0 and exactly -1 at v = low.                          *)
C24_DeadzoneAnchors ==
    \A c \in DzCalls :
       InUnit(c.value) =>
          /\ InUnit(c.out)
          /\ c.value = dz_limits[3] => c.out = 0
          /\ c.value = dz_limits[4] => c.out = One
          /\ (c.value = dz_limits[2] /\ dz_limits[2] < 0) => c.out = 0
          /\ c.value = dz_limits[1] => c.out = -One

(* deadzone was called at v = high = 0.75 with high_center = 0.25, and at  *)
(* v = low = -0.75 with low_center = -0.25.                                *)
C24_Witness ==
    /\ dz_limits = <<-7500, -2500, 2500, 7500>>
    /\ dz_calls = <<[value |-> 7500, out |-> One],
                    [value |-> -7500, out |-> -One]>>

(* C25: under the ordering of the limits, deadzone is exactly 0 on         *)
(* [low_center, high_center], exactly 1 for every value >= high, exactly   *)
(* -1 for every value <= low, and monotonic non-decreasing over [-1, 1].   *)
C25_DeadzoneFlat ==
    /\ \A c \in DzCalls :
          /\ (dz_limits[2] <= c.value /\ c.value <= dz_limits[3]) => c.out = 0
          /\ c.value >= dz_limits[4] => c.out = One
          /\ c.value <= dz_limits[1] => c.out = -One
    /\ \A c, e \in DzCalls :
          (InUnit(c.value) /\ InUnit(e.value) /\ c.value <= e.value) =>
              c.out <= e.out

(* deadzone was called inside the centre region on both sides of 0, with   *)
(* a centre region that reaches from -0.25 to 0.25.                        *)
C25_Witness ==
    /\ dz_limits[2] = -2500 /\ dz_limits[3] = 2500
    /\ dz_calls = <<[value |-> -2500, out |-> 0], [value |-> 0, out |-> 0]>>

(***************************************************************************)
(* Properties of the calibration functions (specification SpecCalib).      *)
(***************************************************************************)
CalCalls == {cal_calls[i] : i \in 1..Len(cal_calls)}

Minimum == cal_args[1]
Center == cal_args[2]
Maximum == cal_args[3]

(* C27: for minimum < center < maximum, axis_calibration maps center to 0, *)
(* maximum to 1 and minimum to -1; every raw value maps into [-1, 1],      *)
(* values <= minimum to -1, values >= maximum to 1, values below center    *)
(* into [-1, 0) and values at or above center into [0, 1].                 *)
C27_AxisCalibration ==
    (Minimum < Center /\ Center < Maximum) =>
        \A c \in CalCalls :
           LET n == c.out[1]
               d == c.out[2]
           IN  /\ c.err = "none" /\ d > 0
               /\ -d <= n /\ n <= d
               /\ c.value = Center => n = 0
               /\ c.value >= Maximum => n = d
               /\ c.value <= Minimum => n = -d
               /\ c.value < Center => n < 0
               /\ c.value >= Center => n >= 0

(* With (0, 40, 100), 20 was mapped to -1/2 and 120 to 1.                  *)
C27_Witness ==
    /\ cal_args = <<0, 40, 100>>
    /\ cal_calls = <<[value |-> 20, out |-> <<-20, 40>>, err |-> "none"],
                     [value |-> 120, out |-> <<60, 60>>, err |-> "none"]>>

(* C28: for minimum < maximum, slider_calibration maps minimum to -1 and   *)
(* maximum to 1, maps every raw value into [-1, 1], and is monotonic       *)
(* non-decreasing in its input.                                            *)
C28_SliderCalibration ==
    (Minimum < Maximum /\ cal_fn.kind = "slider") =>
        /\ \A c \in CalCalls :
              LET n == c.out[1]
                  d == c.out[2]
              IN  /\ c.err = "none" /\ d > 0
                  /\ -d <= n /\ n <= d
                  /\ c.value <= Minimum => n = -d
                  /\ c.value >= Maximum => n = d
        /\ \A c, e \in CalCalls :
              c.value <= e.value => c.out[1] * e.out[2] <= e.out[1] * c.out[2]

(* The slider mapping of (0, 100) took -20 to -1 and 70 to 2/5.            *)
C28_Witness ==
    /\ cal_args = <<0, 0, 100>> /\ cal_fn.kind = "slider"
    /\ cal_calls = <<[value |-> -20, out |-> <<-100, 100>>, err |-> "none"],
                     [value |-> 70, out |-> <<40, 100>>, err |-> "none"]>>

CallAgrees(c) ==
    LET out == IF Center = Minimum \/ Center = Maximum
               THEN slider_calibration(c.value, Minimum, Maximum)
               ELSE axis_calibration(c.value, Minimum, Center, Maximum)
    IN  IF out[2] = 0 THEN c.err = "ZeroDivisionError"
        ELSE c.err = "none" /\ c.out = out

(* C29: the function create_calibration_function returns equals            *)
(* slider_calibration(., minimum, maximum) on every input when center is   *)
(* minimum or maximum and axis_calibration(., minimum, center, maximum)    *)
(* otherwise; the choice is made at creation and stays for every sample.   *)
C29_CalibrationSelection ==
    [][/\ cal_fn # NoFn => cal_fn' = cal_fn
       /\ cal_args' = cal_args
       /\ cal_fn'.kind # "none" =>
             (cal_fn'.kind = "slider" <=>
                 (Center = Minimum \/ Center = Maximum))
       /\ \A i \in 1..Len(cal_calls') : CallAgrees(cal_calls'[i])]_vars

(* A function created with center == maximum mapped two samples with the   *)
(* slider mapping.                                                         *)
C29_Witness ==
    /\ cal_args = <<0, 100, 100>> /\ cal_fn.kind = "slider"
    /\ cal_calls = <<[value |-> 0, out |-> <<-100, 100>>, err |-> "none"],
                     [value |-> 100, out |-> <<100, 100>>, err |-> "none"]>>

(* C30: create_calibration_function called with minimum == maximum fails   *)
(* when the function is created: no function is returned, and no sample    *)
(* reaches a division by zero.                                             *)
C30_DegenerateRangeRejected ==
    /\ Minimum = Maximum => cal_fn = NoFn
    /\ \A c \in CalCalls : c.err # "ZeroDivisionError"

(***************************************************************************)
(* Properties of the stored calibration (specification SpecConfig).        *)
(***************************************************************************)
(* C31: after any sequence of set_calibration calls, every triple          *)
(* get_calibration returns for any device and axis has minimum # maximum,  *)
(* the function create_calibration_function builds from it divides by zero *)
(* on no sample, and an axis whose supplied range has maximum - minimum    *)
(* = 0 is not stored and reads back as the default.                        *)
C31_StoredCalibrationDivides ==
    /\ \A dev \in CfgDevs, axis_id \in CfgAxes :
          LET t == get_calibration(dev, axis_id)
              fn == create_calibration_function(t[1], t[2], t[3])
          IN  /\ t[1] # t[3]
              /\ \A x \in CalValues \cup {t[1], t[2], t[3]} :
                    CalApply(fn, x)[2] # 0
    /\ \A i \in 1..Len(cfg_call.limits) :
          cfg_call.limits[i][1] = cfg_call.limits[i][3] =>
             /\ calibration[cfg_call.dev][i - 1] = NoLimit
             /\ get_calibration(cfg_call.dev, i - 1) = DefaultCalibration

(* A call gave a usable range for axis 0 and a degenerate one for axis 1:  *)
(* axis 0 reads back as given, axis 1 as the default.                      *)
C31_Witness ==
    /\ cfg_call = [dev |-> 1, limits |-> <<<<0, 0, 100>>, <<40, 40, 40>>>>]
    /\ get_calibration(1, 0) = <<0, 0, 100>>
    /\ get_calibration(1, 1) = DefaultCalibration
    /\ calibration[2] # NoEntry

(* C32: when SetAxis, SetBtn or SetContPov returns false for a control     *)
(* write, the setter raises VJoyError to its caller, and the driver write  *)
(* was attempted exactly once for that call.                               *)
C32_WriteFailureSurfaced ==
    access.write =>
       /\ drv_write.calls <= 1
       /\ (drv_write.calls = 1 /\ ~drv_write.ok) => access.raised
       /\ ~access.raised => (drv_write.calls = 1 /\ drv_write.ok)

(* SetContPov returned false for a hat write: one driver call, VJoyError.  *)
C32_Witness ==
    /\ access.kind = "hat" /\ access.write /\ access.raised
    /\ drv_write = [calls |-> 1, ok |-> FALSE]

(* C33: set_deadzone and set_response_curve leave the axis's stored value  *)
(* unchanged, issue no driver write and do not update the last-used        *)
(* timestamp; a write uses the functions installed when it is made.        *)
C33_ReplacementKeepsHistory ==
    [][/\ (ax'.dz # ax.dz \/ ax'.curve # ax.curve) =>
             /\ ax'.value = ax.value
             /\ ax_call' = ax_call
             /\ last_active' = last_active /\ last_write' = last_write
       /\ (ax_call' # ax_call /\ ax_call'.err # "ZeroDivisionError") =>
             /\ ax'.dz = ax.dz /\ ax'.curve = ax.curve
             /\ ax'.value = AxisPipeline(ax_call'.value, ax.dz, ax.curve)]_vars

(* A value was written, then the deadzone was replaced by one that would   *)
(* map the written input elsewhere: the stored value is still the old one. *)
C33_Witness ==
    /\ ax_call.n = 1 /\ ax.dz # ax_call.dz
    /\ ax.value = ax_call.stored
    /\ ~DeadzoneDivides(ax_call.value, ax.dz)
    /\ AxisPipeline(ax_call.value, ax.dz, ax.curve) # ax.value

(* The raw devices SDL could open, in enumeration order.                   *)
Openable == SelectSeq(sdl_devices, LAMBDA raw : raw.open)

Count(seq, Test(_)) == Len(SelectSeq(seq, Test))

(* C34: a device whose name cannot be read gets the name "Unknown device"  *)
(* and is not virtual, a diagnostic is logged for it, and enumeration      *)
(* yields one descriptor for it and for every other openable device, each  *)
(* with its slot index unset until a slot is matched to it.                *)
C34_UnreadableNameNotFatal ==
    jd.pc # "enumerate" =>
       /\ Len(devices) = Len(Openable)
       /\ \A k \in 1..Len(devices) :
             /\ Openable[k].name = "none" =>
                   (devices[k].name = "Unknown device" /\ ~devices[k].is_virtual)
             /\ Openable[k].name # "none" => devices[k].name = Openable[k].name
             /\ Signature(devices[k]) = Signature(Openable[k])
             /\ assigned[k] = <<>> => devices[k].vjoy_id = 0
       /\ Count(jd.log, LAMBDA m : m = "Encountered an invalid device name")
             = Count(Openable, LAMBDA raw : raw.name = "none")

(* SDL reported a device without a readable name before a vJoy device; the *)
(* call returned both descriptors, the second bound to slot 1.             *)
C34_Witness ==
    /\ jd.pc = "done"
    /\ Len(sdl_devices) = 2 /\ sdl_devices[1].open /\ sdl_devices[1].name = "none"
    /\ Len(devices) = 2
    /\ devices[1].name = "Unknown device" /\ devices[1].vjoy_id = 0
    /\ devices[2].is_virtual /\ devices[2].vjoy_id = 1
    /\ jd.log = <<"Encountered an invalid device name">>

(***************************************************************************)
(* Properties of the device ids (specification SpecIds).                   *)
(***************************************************************************)
SharedHardwareId ==
    \E i, j \in 1..Len(id_devices) :
        i # j /\ id_devices[i].hardware_id = id_devices[j].hardware_id

(* What the claim gives for the id of the device a call was made for.      *)
ExpectedId ==
    IF g_duplicate_devices
    THEN <<"tuple", id_held.hardware_id, id_held.windows_id>>
    ELSE <<"int", id_held.hardware_id>>

RoundTrip ==
    (id_held.src = "get_device_id" /\ id_out # NoOut
        /\ id_held.flag = id_out.flag) =>
       id_out.out = IF id_out.flag
                    THEN <<<<"int", id_held.hardware_id>>,
                           <<"int", id_held.windows_id>>>>
                    ELSE <<<<"int", id_held.hardware_id>>, <<"int", -1>>>>

(* C35 as stated: setup_duplicate_joysticks sets the duplicate flag true   *)
(* iff two enumerated devices share a hardware id; while the flag is       *)
(* unchanged, device_id(dev) is (hardware_id, windows_id) when the flag is *)
(* true and hardware_id alone otherwise, and                               *)
(* extract_ids(get_device_id(h, w)) is (h, w) when the flag is true and    *)
(* (h, -1) otherwise.                                                      *)
C35_DeviceIdentityAnyTime ==
    /\ g_duplicate_devices <=> SharedHardwareId
    /\ (id_held.src = "device_id" /\ id_held.flag = g_duplicate_devices) =>
          id_held.id = ExpectedId
    /\ RoundTrip

(* C35, amended: the same for every call of device_id made after           *)
(* setup_duplicate_joysticks has returned once; before that the name       *)
(* device_id is bound to None and calling it raises TypeError.             *)
C35_DeviceIdentity ==
    /\ g_duplicate_devices <=> SharedHardwareId
    /\ (id_held.src = "device_id" /\ id_held.flag = g_duplicate_devices) =>
          IF id_held.bound = "None" THEN id_held.id = <<"TypeError">>
          ELSE id_held.id = ExpectedId
    /\ RoundTrip

(* Two devices with hardware id 2 were enumerated; the id of (2, 1) was    *)
(* made by get_device_id and taken apart again.                            *)
C35_RoundTripMade ==
    /\ g_duplicate_devices /\ SharedHardwareId
    /\ id_held.src = "get_device_id" /\ id_held.flag
    /\ id_held.hardware_id = 2 /\ id_held.windows_id = 1
    /\ id_out = [out |-> <<<<"int", 2>>, <<"int", 1>>>>, flag |-> TRUE]

(* After a setup that found two devices sharing hardware id 1, device_id  *)
(* was called for one of them.                                             *)
C35_Witness ==
    /\ g_duplicate_devices /\ SharedHardwareId
    /\ id_held.src = "device_id" /\ id_held.flag
    /\ id_held.bound = "device_id_duplicates"
    /\ id_held.id = <<"tuple", 1, 1>>

(***************************************************************************)
(* Properties of the axis table (specification SpecAxes).                  *)
(***************************************************************************)
(* C36: after successful construction axis_count is exactly twice the      *)
(* number of axes the driver reports as existing: each existing axis is    *)
(* registered under its AxisName and under its 1-based position, both keys *)
(* referring to the same Axis object, so int(axis_count / 2) is the        *)
(* logical axis count; is_axis_valid(i) for an integer i holds iff the     *)
(* i-th axis name exists on the device.                                    *)
C36_AxisDoubleNaming ==
    axes_dict.built =>
       LET table == axes_dict.table IN
       /\ axis_count = 2 * Cardinality(axis_exist)
       /\ axis_count \div 2 = Cardinality(axis_exist)
       /\ \A i \in AxisPositions :
             /\ i \in axis_exist <=> <<"int", i>> \in DOMAIN table
             /\ i \in axis_exist <=> <<"AxisName", 47 + i>> \in DOMAIN table
             /\ i \in axis_exist => table[<<"int", i>>] = table[<<"AxisName", 47 + i>>]
       /\ \A i, j \in axis_exist :
             i # j => table[<<"int", i>>] # table[<<"int", j>>]
       /\ axis_query.asked =>
             (axis_query.result <=> axis_query.index \in axis_exist)

(* A device with the axes X, Y and SL0: six keys, and position 7 is valid. *)
C36_Witness ==
    /\ axes_dict.built /\ axis_exist = {1, 2, 7}
    /\ axis_count = 6
    /\ axis_query = [index |-> 7, result |-> TRUE, asked |-> TRUE]

(***************************************************************************)
(* Further properties of the VJoy device (specification Spec).             *)
(***************************************************************************)
(* The constructor of d raised after AcquireVJD had succeeded.             *)
FailedLate(d) == st[d] = "failed" /\ vjoy_id[d] # None

(* C37: if the VJoy constructor raises after AcquireVJD has succeeded, the *)
(* slot is not left acquired and no keep-alive timer is left armed.        *)
C37_NoLeakOnLateFailure ==
    \A d \in Insts :
       FailedLate(d) =>
          /\ VJDStatus[vjoy_id[d]] # "Own"
          /\ keep_alive_timer[d].state \notin {"created", "waiting"}

(* The timer chain of d: a timer waiting, or the tick that timer started   *)
(* on its way to arming the next one.                                      *)
ChainAlive(d) ==
    \/ keep_alive_timer[d].state = "waiting" /\ ka[d].pc = "idle"
    \/ keep_alive_timer[d].state = "fired"
          /\ ka[d].pc \in {"check", "reset", "axes", "arm"}
    \/ keep_alive_timer[d].state = "created" /\ ka[d].pc = "start"

(* C39: from construction until invalidate() is called, at most one        *)
(* keep-alive timer is pending for a device, each tick arms exactly one    *)
(* successor after its idle check, and the timer handle refers to the most *)
(* recently armed timer.                                                   *)
C39_SingleTimerChain ==
    \A d \in Insts :
       (st[d] \in {"ctor", "live"} /\ inv_calls[d] = 0) => ChainAlive(d)

(* The tick of d leaves the write of axis i behind it.                     *)
TickWrote(d, i) ==
    /\ ka[d].pc = "axes" /\ ka[d].i = i
    /\ ka'[d].pc # "axes" \/ ka'[d].i # i

(* C40: if the foreground thread writes an axis value after the keep-alive *)
(* tick has evaluated its idle check but before the tick's reset has       *)
(* written that axis, the axis keeps the foreground's value: the tick's    *)
(* reset does not put 0.0 over it.                                         *)
C40_FreshInputKept ==
    [][\A d \in Insts : \A i \in 1..8 :
          (i \in fresh[d] /\ TickWrote(d, i)) =>
              axis'[d][i] = axis[d][i]]_vars

(***************************************************************************)
(* Further properties of joystick_devices (specification SpecMatch).       *)
(***************************************************************************)
(* C38: whenever joystick_devices returns, no two descriptors carry the    *)
(* same non-zero slot index, every non-virtual descriptor still has slot   *)
(* index 0, and every non-zero slot index is the id of a slot that was     *)
(* opened during this pass and whose halved signature equals the           *)
(* descriptor's signature.                                                 *)
C38_BindingInjective ==
    jd.pc = "done" =>
       /\ \A k, l \in 1..Len(devices) :
             (k # l /\ devices[k].vjoy_id # 0) =>
                devices[k].vjoy_id # devices[l].vjoy_id
       /\ \A k \in 1..Len(devices) :
             /\ devices[k].name # "vJoy Device" => devices[k].vjoy_id = 0
             /\ devices[k].vjoy_id # 0 =>
                  LET v == devices[k].vjoy_id IN
                  /\ v \in ProbeSlots /\ slot_cfg[v].present
                  /\ v \in {assigned[k][n] : n \in 1..Len(assigned[k])}
                  /\ <<(2 * slot_cfg[v].axes) \div 2, slot_cfg[v].buttons,
                       slot_cfg[v].hats>>
                        = <<devices[k].axes, devices[k].buttons, devices[k].hats>>

(* Two vJoy devices and a call that returned with each bound to the slot   *)
(* of its own shape.                                                       *)
C38_Witness ==
    /\ jd.pc = "done" /\ Len(devices) = 2
    /\ devices[1].is_virtual /\ devices[2].is_virtual
    /\ devices[1].vjoy_id # 0 /\ devices[2].vjoy_id # 0
    /\ devices[1].vjoy_id # devices[2].vjoy_id
====
